---- MODULE Spec2Model ----
(***************************************************************************)
(* A model of kraang: the FTS5 query sanitizer / compiler                  *)
(* (src/src/kraang/search.py) and the SQLiteStore notes table with its     *)
(* write lock (src/src/kraang/store.py).                                   *)
(*                                                                         *)
(* Strings are sequences of characters; a character is a one-element TLA+  *)
(* string, except NUL, which stands for the character \x00.                *)
(***************************************************************************)
EXTENDS Integers, Sequences, FiniteSets, TLC

VARIABLES
    raw,        \* the query string being typed by the caller
    nchunks,    \* how many chunks of input the caller has typed
    called,     \* which function was last called on raw: "none", "sanitize", "build"
    result,     \* what that call returned
    notes,      \* the rows of the notes table
    prev,       \* the notes table as it was before the last call
    last,       \* the last call of the single caller: its arguments and what it returned
    lock,       \* SQLiteStore._write_lock: the task holding it, or Nil
    tasks,      \* per task: the upsert_note call it is in and where it is
    drawn,      \* how many note ids new_id() has handed out
    returned,   \* what the finished upsert_note calls of the tasks reported
    sessions,   \* the rows of the sessions table
    prevs,      \* the sessions table as it was before the last call
    reply,      \* what the last caller of the compiler (recall, CLI search, search) answered
    matched,    \* the match searches of the storage layer that callers have invoked
    hits,       \* the list of search results handed to deduplicate_results
    deduped,    \* what deduplicate_results returned: [done, list]
    body,       \* the content handed to generate_snippet
    wanted,     \* the query terms handed to generate_snippet
    snip,       \* what generate_snippet returned: [done, max_length, text]
    knotes,     \* krang: the rows of the notes table of the NoteStore
    clock,      \* krang: the day datetime.now() reports
    answer,     \* krang: the last call of find_related, find_stale_notes or build_daily_digest
    lookup,     \* the last read of the sessions table: its argument and what it returned or raised
    files,      \* the session files on disk: per file stem, its mtime, size and text
    run,        \* the last index_sessions run: what it scanned, indexed and found stored
    server,     \* kraang.server: the global _store, the stores created, the tool calls
    writer      \* the upsert_session call in progress: where it is and the row it writes

qvars == <<raw, nchunks, called, result>>
svars == <<notes, prev, last, lock, tasks, drawn, returned>>
evars == <<sessions, prevs>>
cvars == <<reply, matched>>
rvars == <<hits, deduped>>
gvars == <<body, wanted, snip>>
kvars == <<knotes, clock, answer>>
lvars == <<lookup>>
ivars == <<files, run, server, writer>>
yvars == <<kvars, lvars, ivars>>
xvars == <<evars, cvars, rvars, gvars, yvars>>
vars  == <<raw, nchunks, called, result, notes, prev, last, lock, tasks, drawn, returned,
           sessions, prevs, reply, matched, hits, deduped, body, wanted, snip,
           knotes, clock, answer, lookup, files, run, server, writer>>

-----------------------------------------------------------------------------
(* Characters and character classes                                        *)

QT  == "\""
SP  == " "
NUL == "NUL"

\* str.isspace(), regex \s and \S: the whitespace characters of the model
Whitespace == {" ", "\t"}

IsSpace(c) == c \in Whitespace

\* _FTS5_SPECIAL, the character class [\^\*\(\)\{\}\[\]:]
FTS5_SPECIAL == {"^", "*", "(", ")", "{", "}", "[", "]", ":"}

\* _BOOLEAN_OPS
BOOLEAN_OPS == {<<"A", "N", "D">>, <<"O", "R">>, <<"N", "O", "T">>}

UpperCase == <<"A", "B", "D", "G", "N", "O", "R", "T">>
LowerCase == <<"a", "b", "d", "g", "n", "o", "r", "t">>

\* regex \w: letters, digits and the underscore
IsWordChar(c) ==
    \/ \E i \in 1..Len(UpperCase) : c = UpperCase[i] \/ c = LowerCase[i]
    \/ c \in {"0", "1", "2", "3", "4", "5", "6", "7", "8", "9", "_"}

\* case folding, as re.IGNORECASE compares characters
Lower(c) ==
    IF \E i \in 1..Len(UpperCase) : c = UpperCase[i]
    THEN LowerCase[CHOOSE i \in 1..Len(UpperCase) : c = UpperCase[i]]
    ELSE c

\* str.upper() on one character
Upper(c) ==
    IF \E i \in 1..Len(LowerCase) : c = LowerCase[i]
    THEN UpperCase[CHOOSE i \in 1..Len(LowerCase) : c = LowerCase[i]]
    ELSE c

\* str.upper() and str.casefold()
UpperStr(w) == [i \in 1..Len(w) |-> Upper(w[i])]
LowerStr(w) == [i \in 1..Len(w) |-> Lower(w[i])]

-----------------------------------------------------------------------------
(* String helpers: the str and re operations the code calls                *)

\* not s.strip(): s is empty or all whitespace
IsBlank(s) == \A i \in 1..Len(s) : IsSpace(s[i])

\* s.count(c)
Count(s, c) == Cardinality({i \in 1..Len(s) : s[i] = c})

\* s.replace(c, "") for a single character c
RemoveChar(s, c) == SelectSeq(s, LAMBDA x : x # c)

\* the decimal digits of n, as str(n) / f"{n}" prints them
RECURSIVE Decimal(_)
Decimal(n) ==
    LET d == <<"0", "1", "2", "3", "4", "5", "6", "7", "8", "9">>[(n % 10) + 1]
    IN  IF n < 10 THEN <<d>> ELSE Decimal(n \div 10) \o <<d>>

\* f"\x00{idx}\x00"
Placeholder(idx) == <<NUL>> \o Decimal(idx) \o <<NUL>>

\* the index of the first c in s at or after position i, or 0
RECURSIVE IndexFrom(_, _, _)
IndexFrom(s, c, i) ==
    IF i > Len(s) THEN 0
    ELSE IF s[i] = c THEN i
    ELSE IndexFrom(s, c, i + 1)

\* whether pat occurs in s at position i
OccursAt(s, pat, i) ==
    /\ i + Len(pat) - 1 <= Len(s)
    /\ \A k \in 1..Len(pat) : s[i + k - 1] = pat[k]

\* s.replace(pat, rep): every non-overlapping occurrence, left to right
RECURSIVE ReplaceFrom(_, _, _, _)
ReplaceFrom(s, pat, rep, i) ==
    IF i > Len(s) THEN <<>>
    ELSE IF OccursAt(s, pat, i) THEN rep \o ReplaceFrom(s, pat, rep, i + Len(pat))
    ELSE <<s[i]>> \o ReplaceFrom(s, pat, rep, i + 1)

Replace(s, pat, rep) == ReplaceFrom(s, pat, rep, 1)

\* s.split(): the maximal runs of non-whitespace characters of s
RECURSIVE SplitFrom(_, _, _)
SplitFrom(s, i, word) ==
    IF i > Len(s) THEN (IF word = <<>> THEN <<>> ELSE <<word>>)
    ELSE IF IsSpace(s[i])
         THEN (IF word = <<>> THEN <<>> ELSE <<word>>) \o SplitFrom(s, i + 1, <<>>)
         ELSE SplitFrom(s, i + 1, Append(word, s[i]))

Split(s) == SplitFrom(s, 1, <<>>)

\* " ".join(words)
RECURSIVE Join(_)
Join(words) ==
    IF words = <<>> THEN <<>>
    ELSE IF Len(words) = 1 THEN words[1]
    ELSE words[1] \o <<SP>> \o Join(Tail(words))

-----------------------------------------------------------------------------
(* _QUOTED_PHRASE = re.compile(r'"[^"]*"')                                  *)

\* _QUOTED_PHRASE.finditer(s): the matches, left to right, as
\* [start |-> 1-based offset, text |-> the matched span]. A quote with no
\* later quote matches nothing and is passed over.
RECURSIVE PhrasesFrom(_, _)
PhrasesFrom(s, i) ==
    IF i > Len(s) THEN <<>>
    ELSE IF s[i] = QT /\ IndexFrom(s, QT, i + 1) # 0
         THEN LET j == IndexFrom(s, QT, i + 1)
              IN  <<[start |-> i, text |-> SubSeq(s, i, j)]>> \o PhrasesFrom(s, j + 1)
         ELSE PhrasesFrom(s, i + 1)

QuotedPhrases(s) == PhrasesFrom(s, 1)

\* the replacement of the k-th match (0-based) m: the _stash callback of
\* sanitize_fts_query, or the lambda of build_fts_query that blanks the match
PhraseRepl(how, k, m) ==
    IF how = "stash" THEN Placeholder(k) ELSE [i \in 1..Len(m) |-> SP]

\* _QUOTED_PHRASE.sub(repl, s)
RECURSIVE SubPhrasesFrom(_, _, _, _)
SubPhrasesFrom(s, i, k, how) ==
    IF i > Len(s) THEN <<>>
    ELSE IF s[i] = QT /\ IndexFrom(s, QT, i + 1) # 0
         THEN LET j == IndexFrom(s, QT, i + 1)
              IN  PhraseRepl(how, k, SubSeq(s, i, j)) \o SubPhrasesFrom(s, j + 1, k + 1, how)
         ELSE <<s[i]>> \o SubPhrasesFrom(s, i + 1, k, how)

SubPhrases(s, how) == SubPhrasesFrom(s, 1, 0, how)

\* the special characters left in place
KeepSpecial(text) == text

\* _FTS5_SPECIAL.sub(" ", text)
StripSpecial(text) ==
    [i \in 1..Len(text) |-> IF text[i] \in FTS5_SPECIAL THEN SP ELSE text[i]]

\* the loop "for idx, phrase in enumerate(phrases): text = text.replace(...)"
RECURSIVE RestoreFrom(_, _, _)
RestoreFrom(text, phrases, idx) ==
    IF idx >= Len(phrases) THEN text
    ELSE RestoreFrom(Replace(text, Placeholder(idx), phrases[idx + 1].text),
                     phrases, idx + 1)

\* the odd-quote branch left out: the string goes on as it is
KeepOddQuotes(s) == s

\* the odd-quote branch of sanitize_fts_query: strip ALL quotes
StripOddQuotes(s) ==
    IF Count(s, QT) % 2 # 0 THEN RemoveChar(s, QT) ELSE s

\* sanitize_fts_query(raw)
sanitize_fts_query(s) ==
    IF IsBlank(s) THEN <<>>
    ELSE LET r == StripOddQuotes(s)
         IN  IF IsBlank(r) THEN <<>>
             ELSE LET phrases == QuotedPhrases(r)
                      stashed == SubPhrases(r, "stash")
                      text    == RestoreFrom(StripSpecial(stashed), phrases, 0)
                  IN  Join(Split(text))

-----------------------------------------------------------------------------
(* build_fts_query                                                         *)

TagPrefix == <<"t", "a", "g", ":">>

\* the same regex without re.IGNORECASE
TagMatchAtExactCase(s, i) ==
    /\ i + Len(TagPrefix) <= Len(s)
    /\ \A k \in 1..Len(TagPrefix) : s[i + k - 1] = TagPrefix[k]
    /\ (i = 1 \/ ~IsWordChar(s[i - 1]))
    /\ ~IsSpace(s[i + Len(TagPrefix)])

\* whether the regex \btag:\S+ (re.IGNORECASE) matches s at position i
TagMatchAt(s, i) ==
    /\ i + Len(TagPrefix) <= Len(s)
    /\ \A k \in 1..Len(TagPrefix) : Lower(s[i + k - 1]) = TagPrefix[k]
    /\ (i = 1 \/ ~IsWordChar(s[i - 1]))
    /\ ~IsSpace(s[i + Len(TagPrefix)])

\* the end of the run of non-whitespace characters (\S+) that starts at i
RECURSIVE RunEnd(_, _)
RunEnd(s, i) ==
    IF i < Len(s) /\ ~IsSpace(s[i + 1]) THEN RunEnd(s, i + 1) ELSE i

\* re.sub(r"\btag:\S+", "", raw, flags=re.IGNORECASE)
RECURSIVE StripTagsFrom(_, _)
StripTagsFrom(s, i) ==
    IF i > Len(s) THEN <<>>
    ELSE IF TagMatchAt(s, i) THEN StripTagsFrom(s, RunEnd(s, i) + 1)
    ELSE <<s[i]>> \o StripTagsFrom(s, i + 1)

StripTags(s) == StripTagsFrom(s, 1)

\* re.finditer(r"\S+", s): the words of s with their offsets
RECURSIVE WordsFrom(_, _)
WordsFrom(s, i) ==
    IF i > Len(s) THEN <<>>
    ELSE IF IsSpace(s[i]) THEN WordsFrom(s, i + 1)
    ELSE LET j == RunEnd(s, i)
         IN  <<[kind |-> "word", pos |-> i, value |-> SubSeq(s, i, j)]>>
                 \o WordsFrom(s, j + 1)

\* the tokens list before it is sorted: the phrases, then the bare words
\* found in the string with the phrases blanked out
Tokens(sanitized) ==
    LET ph == QuotedPhrases(sanitized)
        phraseTokens ==
            [k \in 1..Len(ph) |-> [kind |-> "phrase", pos |-> ph[k].start, value |-> ph[k].text]]
        no_quotes == SubPhrases(sanitized, "blank")
    IN  phraseTokens \o WordsFrom(no_quotes, 1)

\* a stable sort of the tokens by position
RECURSIVE StableSort(_)
StableSort(tokens) ==
    IF tokens = <<>> THEN <<>>
    ELSE LET m == CHOOSE i \in 1..Len(tokens) :
                      \A j \in 1..Len(tokens) :
                          \/ tokens[i].pos < tokens[j].pos
                          \/ (tokens[i].pos = tokens[j].pos /\ i <= j)
             rest == [k \in 1..(Len(tokens) - 1) |->
                          IF k < m THEN tokens[k] ELSE tokens[k + 1]]
         IN  <<tokens[m]>> \o StableSort(rest)

\* the tokens left in the order they were collected: phrases, then words
Unsorted(tokens) == tokens

\* tokens.sort(key=lambda t: t[1])
SortByPos(tokens) == StableSort(tokens)

\* the test made on the uppercase form of the value
IsBooleanOpAnyCase(value) == UpperStr(value) \in BOOLEAN_OPS

\* the test "value in _BOOLEAN_OPS"
IsBooleanOp(value) == value \in BOOLEAN_OPS

\* one iteration of the loop that fills parts
EmitToken(t) ==
    IF t.kind = "phrase" \/ IsBooleanOp(t.value)
    THEN t.value
    ELSE <<QT>> \o t.value \o <<QT>>

\* the list parts of build_fts_query (empty when it returns early)
BuildParts(s) ==
    LET sanitized == sanitize_fts_query(StripTags(s))
    IN  IF sanitized = <<>> THEN <<>>
        ELSE LET tokens == SortByPos(Tokens(sanitized))
             IN  [k \in 1..Len(tokens) |-> EmitToken(tokens[k])]

\* build_fts_query(raw)
build_fts_query(s) == Join(BuildParts(s))

-----------------------------------------------------------------------------
(* krang.search (src/src/krang/search.py): the same two functions in the   *)
(* older package                                                           *)

\* a sanitizer that does not set the quoted phrases aside
krang_sanitize_unstashed(s) ==
    IF IsBlank(s) THEN <<>> ELSE Join(Split(StripSpecial(s)))

\* krang.search.sanitize_fts_query(raw): the quotes are never stripped
krang_sanitize_fts_query(s) ==
    IF IsBlank(s) THEN <<>>
    ELSE LET phrases == QuotedPhrases(s)
             stashed == SubPhrases(s, "stash")
             text    == RestoreFrom(StripSpecial(stashed), phrases, 0)
         IN  Join(Split(text))

\* krang.search.build_fts_query(raw)
krang_build_fts_query(s) ==
    LET sanitized == krang_sanitize_fts_query(StripTags(s))
    IN  IF sanitized = <<>> THEN <<>>
        ELSE LET tokens == SortByPos(Tokens(sanitized))
             IN  Join([k \in 1..Len(tokens) |-> EmitToken(tokens[k])])

-----------------------------------------------------------------------------
(* The callers of the query functions: a query is typed chunk by chunk and *)
(* then handed to sanitize_fts_query or to build_fts_query.                *)

MaxChunks == 4

\* a quoted phrase whose text is the placeholder of phrase 1
QuotedPlaceholder == <<QT, NUL, "1", NUL, QT>>

Chunks ==
    { <<"a">>, <<"b">>, <<SP>>, <<"\t">>, <<QT>>, <<"*">>,
      <<"O", "R">>, <<"o", "r">>,
      <<"t", "a", "g", ":">>, <<"T", "a", "g", ":">>,
      QuotedPlaceholder }

QInit ==
    /\ raw = <<>>
    /\ nchunks = 0
    /\ called = "none"
    /\ result = <<>>

Type(c) ==
    /\ called = "none"
    /\ nchunks < MaxChunks
    /\ raw' = raw \o c
    /\ nchunks' = nchunks + 1
    /\ UNCHANGED <<called, result>>
    /\ UNCHANGED <<svars, xvars>>

CallSanitize ==
    /\ called = "none"
    /\ called' = "sanitize"
    /\ result' = sanitize_fts_query(raw)
    /\ UNCHANGED <<raw, nchunks>>
    /\ UNCHANGED <<svars, xvars>>

CallBuild ==
    /\ called = "none"
    /\ called' = "build"
    /\ result' = build_fts_query(raw)
    /\ UNCHANGED <<raw, nchunks>>
    /\ UNCHANGED <<svars, xvars>>

QNext ==
    \/ \E c \in Chunks : Type(c)
    \/ CallSanitize
    \/ CallBuild

-----------------------------------------------------------------------------
(* normalize_title (src/src/kraang/config.py)                              *)

\* _WHITESPACE.sub(" ", text): every run of whitespace becomes one space
RECURSIVE CollapseFrom(_, _)
CollapseFrom(s, i) ==
    IF i > Len(s) THEN <<>>
    ELSE IF IsSpace(s[i])
         THEN (IF i > 1 /\ IsSpace(s[i - 1]) THEN <<>> ELSE <<SP>>) \o CollapseFrom(s, i + 1)
         ELSE <<s[i]>> \o CollapseFrom(s, i + 1)

\* str.strip()
RECURSIVE Strip(_)
Strip(s) ==
    IF s = <<>> THEN s
    ELSE IF IsSpace(s[1]) THEN Strip(Tail(s))
    ELSE IF IsSpace(s[Len(s)]) THEN Strip(SubSeq(s, 1, Len(s) - 1))
    ELSE s

\* normalize_title(raw). unicodedata.normalize("NFC", raw) leaves the ASCII
\* characters of the model as they are.
normalize_title(s) == LowerStr(Strip(CollapseFrom(s, 1)))

-----------------------------------------------------------------------------
(* SQLiteStore: the notes table, the write lock and the tasks calling it   *)

\* no task, no value
Nil == "Nil"

\* fetchone() returned None
NoRow == [note_id |-> 0, title |-> <<>>, title_normalized |-> <<>>, content |-> Nil,
          tags |-> <<>>, category |-> "", relevance |-> 0, created_at |-> 0,
          updated_at |-> 0]

\* tags=None and category="", the defaults of upsert_note, and the time
\* utcnow() reports to a caller that does not look at the clock
NoTags     == <<>>
NoCategory == ""
Epoch      == 0

\* how many note ids are handed out: new_id() is called once per upsert_note
MaxNotes == 3

\* relevance is a float in [0.0, 1.0]; the model counts it in steps of
\* 1/RelevanceSteps, so RelevanceSteps stands for 1.0
RelevanceSteps == 2
FullRelevance  == RelevanceSteps

\* the relevance arguments callers pass, some outside [0.0, 1.0]
RelevanceArgs == (-1)..(RelevanceSteps + 1)

\* the titles callers use: the first two normalize to the same key
Titles == { <<"A">>, <<SP, "a">>, <<"b">> }

\* the text of a note, and the terms a match expression can ask for; the
\* engine rejects the expression Malformed
Terms      == {"x", "y"}
Malformed  == "malformed"
MatchExprs == Terms \cup {Malformed}

\* bm25() scores are negative: more negative = more relevant
MaxScore == 3
Scores   == (-MaxScore)..(-1)

\* search_notes(fts_expr, limit=10)
DefaultLimit == 10
Limits == {1, DefaultLimit}

\* --- the statements on the notes table -----------------------------------

\* the row of the notes table with this title_normalized, or NoRow
\* ("SELECT ... FROM notes WHERE title_normalized = ?" and fetchone())
RowByKey(table, norm) ==
    IF \E r \in table : r.title_normalized = norm
    THEN CHOOSE r \in table : r.title_normalized = norm
    ELSE NoRow

\* the constraints of the schema: note_id PRIMARY KEY, title_normalized UNIQUE
InsertAllowed(table, row) ==
    \A r \in table : r.note_id # row.note_id /\ r.title_normalized # row.title_normalized

\* the INSERT of upsert_note: relevance 1.0
NewRow(id, title, content, tags, category, now) ==
    [note_id |-> id, title |-> title, title_normalized |-> normalize_title(title),
     content |-> content, tags |-> tags, category |-> category,
     relevance |-> FullRelevance, created_at |-> now, updated_at |-> now]

\* an UPDATE that leaves the relevance as it is
UpdatedRowKeepsRelevance(row, title, content, tags, category, now) ==
    [row EXCEPT !.title = title, !.content = content, !.tags = tags,
                !.category = category, !.updated_at = now]

\* the UPDATE of upsert_note, applied to one row: relevance = 1.0
UpdatedRow(row, title, content, tags, category, now) ==
    [row EXCEPT !.title = title, !.content = content, !.tags = tags,
                !.category = category, !.relevance = FullRelevance, !.updated_at = now]

\* an UPDATE without its WHERE clause: every row is written
UpdateEveryNote(table, norm, title, content, tags, category, now) ==
    {UpdatedRow(r, title, content, tags, category, now) : r \in table}

\* "UPDATE notes SET ... WHERE title_normalized = ?" of upsert_note
UpdateNote(table, norm, title, content, tags, category, now) ==
    {IF r.title_normalized = norm THEN UpdatedRow(r, title, content, tags, category, now)
     ELSE r : r \in table}

\* the UPDATE of set_relevance without its WHERE clause
UpdateEveryRelevance(table, norm, relevance, now) ==
    {[r EXCEPT !.relevance = relevance, !.updated_at = now] : r \in table}

\* "UPDATE notes SET relevance = ? ... WHERE title_normalized = ?" of set_relevance
UpdateRelevance(table, norm, relevance, now) ==
    {IF r.title_normalized = norm THEN [r EXCEPT !.relevance = relevance, !.updated_at = now]
     ELSE r : r \in table}

\* the argument is stored as it was given
Unclamped(relevance) == relevance

\* max(0.0, min(1.0, relevance))
Clamp(relevance) ==
    LET lo == IF relevance < FullRelevance THEN relevance ELSE FullRelevance
    IN  IF lo > 0 THEN lo ELSE 0

\* a lookup that found no row raises instead of returning None
AbsentRaises == [kind |-> "raised"]

\* "if row is None: return None"
Absent == [kind |-> "none"]

\* the Note upsert_note returns, with created
UpsertReturn(existing, id, title, content, tags, category, now) ==
    [kind    |-> "note",
     created |-> existing = NoRow,
     note    |-> [note_id |-> IF existing = NoRow THEN id ELSE existing.note_id,
                  title |-> title,
                  title_normalized |-> normalize_title(title),
                  content |-> content,
                  tags |-> tags,
                  category |-> category,
                  relevance |-> FullRelevance,
                  created_at |-> IF existing = NoRow THEN now ELSE existing.created_at,
                  updated_at |-> now]]

\* the Note set_relevance returns: the row it read, with the new relevance
SetRelevanceReturn(existing, relevance, now) ==
    [kind |-> "note", note |-> [existing EXCEPT !.relevance = relevance, !.updated_at = now]]

\* --- search_notes --------------------------------------------------------

\* "notes_fts MATCH ?": the engine's answer for one row
Matches(row, fts_expr) == row.content = fts_expr

\* every row is visible to search
VisibleAlways(row) == TRUE

\* "AND notes.relevance > 0.0"
Visible(row) == row.relevance > 0

\* the rows the WHERE clause of search_notes selects
Candidates(table, fts_expr) == {r \in table : Matches(r, fts_expr) /\ Visible(r)}

Abs(x) == IF x < 0 THEN -x ELSE x

\* the sequences that list every element of the set S once
RECURSIVE Orderings(_)
Orderings(S) ==
    IF S = {} THEN {<<>>}
    ELSE UNION {{<<x>> \o rest : rest \in Orderings(S \ {x})} : x \in S}

\* rows ordered by the engine's score alone, the relevance left out
OrderedByRawScore(rows, score) ==
    {o \in Orderings(rows) :
        \A i \in 1..(Len(o) - 1) : score[o[i].note_id] <= score[o[i + 1].note_id]}

\* rows in the order "ORDER BY (bm25(...) * notes.relevance)" allows, under the
\* scores bm25 gives them; rows with equal keys come in any order
OrderedBy(rows, score) ==
    {o \in Orderings(rows) :
        \A i \in 1..(Len(o) - 1) :
            score[o[i].note_id] * o[i].relevance <= score[o[i + 1].note_id] * o[i + 1].relevance}

\* "LIMIT ?"
Limit(seq, n) == SubSeq(seq, 1, IF Len(seq) < n THEN Len(seq) ELSE n)

\* the list search_notes builds from the rows fetched
ToResults(rows, score) ==
    [i \in 1..Len(rows) |->
        [note  |-> rows[i],
         score |-> Abs(score[rows[i].note_id]) * rows[i].relevance]]

\* everything search_notes(fts_expr, limit) can return on this table: one list
\* per choice of scores by the engine and per order of equal keys; the empty
\* list when the engine raises on the expression
SearchResults(table, fts_expr, limit) ==
    IF fts_expr = Malformed THEN {<<>>}
    ELSE LET rows == Candidates(table, fts_expr)
             ids  == {r.note_id : r \in rows}
         IN  UNION {{ToResults(Limit(o, limit), score) : o \in OrderedBy(rows, score)}
                        : score \in [ids -> Scores]}

\* the scores bm25 gave in a call, by note id; 0 for a note that was no candidate
ScoresGiven(ids, score) == [i \in 1..MaxNotes |-> IF i \in ids THEN score[i] ELSE 0]

-----------------------------------------------------------------------------
(* One caller, one call after the other: each action is a whole call of    *)
(* the store, from "async with self._write_lock" to the return.            *)

NoCall == [name |-> Nil, title |-> <<>>, content |-> Nil, tags |-> NoTags,
           category |-> NoCategory, now |-> Epoch, note_id |-> 0, relevance |-> 0,
           fts_expr |-> Nil, limit |-> 0, scores |-> ScoresGiven({}, <<>>),
           ret |-> [kind |-> "pending"]]

\* upsert_note(title, content, tags, category), with utcnow() reporting now
UpsertNote(title, content, tags, category, now) ==
    /\ drawn < MaxNotes
    /\ lock = Nil
    /\ LET id       == drawn + 1
           norm     == normalize_title(title)
           existing == RowByKey(notes, norm)
           row      == NewRow(id, title, content, tags, category, now)
       IN  /\ existing = NoRow => InsertAllowed(notes, row)
           /\ notes' = IF existing # NoRow
                       THEN UpdateNote(notes, norm, title, content, tags, category, now)
                       ELSE notes \cup {row}
           /\ last' = [NoCall EXCEPT !.name = "upsert_note", !.title = title,
                                     !.content = content, !.tags = tags,
                                     !.category = category, !.now = now,
                                     !.ret = UpsertReturn(existing, id, title, content,
                                                          tags, category, now)]
    /\ drawn' = drawn + 1
    /\ prev' = notes
    /\ UNCHANGED <<lock, tasks, returned>>
    /\ UNCHANGED <<qvars, xvars>>

\* set_relevance(title, relevance), with utcnow() reporting now
SetRelevance(title, relevance, now) ==
    /\ lock = Nil
    /\ LET clamped  == Clamp(relevance)
           norm     == normalize_title(title)
           existing == RowByKey(notes, norm)
       IN  /\ notes' = IF existing = NoRow THEN notes
                       ELSE UpdateRelevance(notes, norm, clamped, now)
           /\ last' = [NoCall EXCEPT !.name = "set_relevance", !.title = title,
                                     !.relevance = relevance, !.now = now,
                                     !.ret = IF existing = NoRow THEN Absent
                                             ELSE SetRelevanceReturn(existing, clamped, now)]
    /\ prev' = notes
    /\ UNCHANGED <<lock, tasks, drawn, returned>>
    /\ UNCHANGED <<qvars, xvars>>

\* search_notes(fts_expr, limit)
SearchNotes(fts_expr, limit) ==
    /\ IF fts_expr = Malformed
       THEN last' = [NoCall EXCEPT !.name = "search_notes", !.fts_expr = fts_expr,
                                   !.limit = limit,
                                   !.ret = [kind |-> "results", results |-> <<>>]]
       ELSE LET rows == Candidates(notes, fts_expr)
                ids  == {r.note_id : r \in rows}
            IN  \E score \in [ids -> Scores] :
                    \E o \in OrderedBy(rows, score) :
                        last' = [NoCall EXCEPT
                                    !.name = "search_notes", !.fts_expr = fts_expr,
                                    !.limit = limit, !.scores = ScoresGiven(ids, score),
                                    !.ret = [kind |-> "results",
                                             results |-> ToResults(Limit(o, limit), score)]]
    /\ prev' = notes
    /\ UNCHANGED <<notes, lock, tasks, drawn, returned>>
    /\ UNCHANGED <<qvars, xvars>>

\* _row_to_note(row): the Note built from the columns of the row
RowToNote(row) ==
    [note_id |-> row.note_id, title |-> row.title,
     title_normalized |-> row.title_normalized, content |-> row.content,
     tags |-> row.tags, category |-> row.category, relevance |-> row.relevance,
     created_at |-> row.created_at, updated_at |-> row.updated_at]

\* what get_note and get_note_by_title return for the row fetched
NoteOrNone(row) ==
    IF row = NoRow THEN Absent ELSE [kind |-> "note", note |-> RowToNote(row)]

\* get_note(note_id)
GetNote(id) ==
    /\ lock = Nil
    /\ LET row == IF \E r \in notes : r.note_id = id
                  THEN CHOOSE r \in notes : r.note_id = id
                  ELSE NoRow
       IN  last' = [NoCall EXCEPT !.name = "get_note", !.note_id = id,
                                 !.ret = NoteOrNone(row)]
    /\ prev' = notes
    /\ UNCHANGED <<notes, lock, tasks, drawn, returned>>
    /\ UNCHANGED <<qvars, xvars>>

\* get_note_by_title(title)
GetNoteByTitle(title) ==
    /\ lock = Nil
    /\ last' = [NoCall EXCEPT !.name = "get_note_by_title", !.title = title,
                              !.ret = NoteOrNone(RowByKey(notes, normalize_title(title)))]
    /\ prev' = notes
    /\ UNCHANGED <<notes, lock, tasks, drawn, returned>>
    /\ UNCHANGED <<qvars, xvars>>

\* count_notes(): (active, forgotten)
CountNotes ==
    /\ lock = Nil
    /\ last' = [NoCall EXCEPT
                   !.name = "count_notes",
                   !.ret = [kind |-> "counts",
                            active |-> Cardinality({r \in notes : r.relevance > 0}),
                            forgotten |-> Cardinality({r \in notes : r.relevance = 0})]]
    /\ prev' = notes
    /\ UNCHANGED <<notes, lock, tasks, drawn, returned>>
    /\ UNCHANGED <<qvars, xvars>>

\* the times utcnow() reports
Times == {Epoch, Epoch + 1}

\* what callers write into a note and when: the content, the tags, the
\* category, and the time utcnow() reports to the call
Payloads ==
    { [content |-> "x", tags |-> NoTags, category |-> NoCategory, now |-> Epoch],
      [content |-> "y", tags |-> <<"t">>, category |-> "c", now |-> Epoch + 1] }

\* the relevance callers of the forget tool set: forgotten, or partly relevant
ForgetArgs == {0, 1}

\* a title no note has
MissingTitle == <<"g">>

\* the notes table, written and read by one caller
NotesNext ==
    \/ \E title \in Titles, p \in Payloads :
           UpsertNote(title, p.content, p.tags, p.category, p.now)
    \/ \E title \in Titles, r \in ForgetArgs, now \in Times : SetRelevance(title, r, now)
    \/ CountNotes

Next ==
    \/ \E title \in Titles, content \in Terms :
           UpsertNote(title, content, NoTags, NoCategory, Epoch)
    \/ \E title \in Titles, r \in RelevanceArgs : SetRelevance(title, r, Epoch)
    \/ \E e \in MatchExprs, n \in Limits : SearchNotes(e, n)

-----------------------------------------------------------------------------
(* Concurrent callers: asyncio tasks that call upsert_note on one store.   *)
(* A task runs until it awaits; every await of the call is a step.         *)

Tasks == {"t1", "t2", "t3"}

IdleTask == [pc |-> "idle", title |-> <<>>, content |-> Nil, note_id |-> 0,
             existing |-> NoRow]

\* the write lock is free whatever task holds it
LockIgnored == TRUE

\* "async with self._write_lock": the lock can be taken when no task holds it
LockAvailable == lock = Nil

\* upsert_note(title, content) up to "async with self._write_lock"
CallUpsert(t, title, content) ==
    /\ tasks[t].pc = "idle"
    /\ drawn < MaxNotes
    /\ drawn' = drawn + 1
    /\ tasks' = [tasks EXCEPT ![t] =
           [pc |-> "acquire", title |-> title, content |-> content,
            note_id |-> drawn + 1, existing |-> NoRow]]
    /\ UNCHANGED <<notes, lock, returned, prev, last>>
    /\ UNCHANGED <<qvars, xvars>>

\* the task enters the "async with" block
Acquire(t) ==
    /\ tasks[t].pc = "acquire"
    /\ LockAvailable
    /\ lock' = t
    /\ tasks' = [tasks EXCEPT ![t].pc = "select"]
    /\ UNCHANGED <<notes, drawn, returned, prev, last>>
    /\ UNCHANGED <<qvars, xvars>>

\* the SELECT by title_normalized and fetchone()
Select(t) ==
    /\ tasks[t].pc = "select"
    /\ tasks' = [tasks EXCEPT ![t].pc = "write",
                              ![t].existing = RowByKey(notes, normalize_title(tasks[t].title))]
    /\ UNCHANGED <<notes, lock, drawn, returned, prev, last>>
    /\ UNCHANGED <<qvars, xvars>>

\* the UPDATE or the INSERT; an INSERT that breaks a constraint of the schema
\* raises sqlite3.IntegrityError, which leaves the "async with" block and
\* reaches the caller
Write(t) ==
    /\ tasks[t].pc = "write"
    /\ LET norm == normalize_title(tasks[t].title)
           row  == NewRow(tasks[t].note_id, tasks[t].title, tasks[t].content,
                          NoTags, NoCategory, Epoch)
       IN  IF tasks[t].existing # NoRow
           THEN /\ notes' = UpdateNote(notes, norm, tasks[t].title, tasks[t].content,
                                       NoTags, NoCategory, Epoch)
                /\ tasks' = [tasks EXCEPT ![t].pc = "commit"]
                /\ UNCHANGED <<lock, returned>>
           ELSE IF InsertAllowed(notes, row)
           THEN /\ notes' = notes \cup {row}
                /\ tasks' = [tasks EXCEPT ![t].pc = "commit"]
                /\ UNCHANGED <<lock, returned>>
           ELSE /\ tasks' = [tasks EXCEPT ![t] = IdleTask]
                /\ lock' = Nil
                /\ returned' = returned \cup
                       {[key |-> norm, kind |-> "raised", note_id |-> 0, created |-> FALSE]}
                /\ UNCHANGED notes
    /\ UNCHANGED <<drawn, prev, last>>
    /\ UNCHANGED <<qvars, xvars>>

\* commit(), the end of the "async with" block and the return
Commit(t) ==
    /\ tasks[t].pc = "commit"
    /\ lock' = Nil
    /\ LET ret == UpsertReturn(tasks[t].existing, tasks[t].note_id,
                               tasks[t].title, tasks[t].content,
                               NoTags, NoCategory, Epoch)
       IN  returned' = returned \cup
               {[key |-> ret.note.title_normalized, kind |-> "note",
                 note_id |-> ret.note.note_id, created |-> ret.created]}
    /\ tasks' = [tasks EXCEPT ![t] = IdleTask]
    /\ UNCHANGED <<notes, drawn, prev, last>>
    /\ UNCHANGED <<qvars, xvars>>

NextTasks ==
    \/ \E t \in Tasks, title \in Titles, content \in Terms : CallUpsert(t, title, content)
    \/ \E t \in Tasks : Acquire(t)
    \/ \E t \in Tasks : Select(t)
    \/ \E t \in Tasks : Write(t)
    \/ \E t \in Tasks : Commit(t)

-----------------------------------------------------------------------------
(* SQLiteStore: the sessions table and search_sessions                     *)

\* a session id is a UUID of 36 characters; the model writes ids of IdLen
\* characters, and CandidateLen stands for the 12 characters get_session
\* shows of a candidate
IdLen        == 3
CandidateLen == 2

\* the session ids the indexer hands to upsert_session
SessionIds == { <<"a", "a", "a">>, <<"a", "a", "b">>, <<"a", "b", "a">>, <<"b", "a", "a">> }

\* a row of the sessions table: its id, its indexed text, and the mtime and
\* the size the source file had when it was parsed
StoredSession(id, text, mtime, size) ==
    [session_id |-> id, text |-> text, source_mtime |-> mtime, source_size |-> size]

\* the row of a session that was not read from a file
SessionRow(id, text) == StoredSession(id, text, 0, 0)

\* the INSERT without the DELETE before it
InsertSession(table, row) == table \cup {row}

\* upsert_session: "DELETE FROM sessions WHERE session_id = ?", then INSERT
ReplaceSession(table, row) ==
    {r \in table : r.session_id # row.session_id} \cup {row}

\* "sessions_fts MATCH ?": the engine's answer for one row
SessionMatches(row, fts_expr) == row.text = fts_expr

\* session rows in the order "ORDER BY score" allows under the scores bm25
\* gives them; rows with equal scores come in any order
SessionsOrderedBy(rows, score) ==
    {o \in Orderings(rows) :
        \A i \in 1..(Len(o) - 1) : score[o[i].session_id] <= score[o[i + 1].session_id]}

\* the list search_sessions builds from the rows fetched
ToSessionResults(rows, score) ==
    [i \in 1..Len(rows) |-> [session |-> rows[i], score |-> Abs(score[rows[i].session_id])]]

\* everything search_sessions(fts_expr, limit) can return on this table; the
\* empty list when the engine raises on the expression
SessionSearchResults(table, fts_expr, limit) ==
    IF fts_expr = Malformed THEN {<<>>}
    ELSE LET rows == {r \in table : SessionMatches(r, fts_expr)}
             ids  == {r.session_id : r \in rows}
         IN  UNION {{ToSessionResults(Limit(o, limit), score) : o \in SessionsOrderedBy(rows, score)}
                        : score \in [ids -> Scores]}

-----------------------------------------------------------------------------
(* The sessions table, called by one caller                                *)

\* the exception is re-raised to the caller of search
Propagated == [kind |-> "raised", results |-> <<>>]

\* "except Exception: logger.warning(...); return []"
Caught == [kind |-> "results", results |-> <<>>]

\* get_session has not been called on the sessions table as it is now
NoLookup == [op |-> "none"]

\* upsert_session(session)
UpsertSession(id, text) ==
    /\ lock = Nil
    /\ sessions' = ReplaceSession(sessions, SessionRow(id, text))
    /\ prevs' = sessions
    /\ prev' = notes
    /\ last' = [NoCall EXCEPT !.name = "upsert_session", !.title = id, !.content = text,
                              !.ret = [kind |-> "none"]]
    /\ lookup' = NoLookup
    /\ UNCHANGED <<notes, lock, tasks, drawn, returned>>
    /\ UNCHANGED <<qvars, cvars, rvars, gvars, kvars, ivars>>

\* search_sessions(fts_expr, limit)
SearchSessions(fts_expr, limit) ==
    /\ \E res \in SessionSearchResults(sessions, fts_expr, limit) :
           last' = [NoCall EXCEPT !.name = "search_sessions", !.fts_expr = fts_expr,
                                  !.limit = limit,
                                  !.ret = IF fts_expr = Malformed THEN Caught
                                          ELSE [kind |-> "results", results |-> res]]
    /\ prevs' = sessions
    /\ prev' = notes
    /\ UNCHANGED <<notes, sessions, lock, tasks, drawn, returned>>
    /\ UNCHANGED <<qvars, cvars, rvars, gvars, yvars>>

\* the titles of the notes and the ids of the sessions searched
SearchedTitles == { <<"A">>, <<"b">> }
SearchedIds    == { <<"a", "a", "a">>, <<"b", "a", "a">> }

SearchNext ==
    \/ \E title \in SearchedTitles, content \in Terms :
           UpsertNote(title, content, NoTags, NoCategory, Epoch)
    \/ \E id \in SearchedIds, text \in Terms : UpsertSession(id, text)
    \/ \E e \in MatchExprs, n \in Limits : SearchNotes(e, n)
    \/ \E e \in MatchExprs, n \in Limits : SearchSessions(e, n)

-----------------------------------------------------------------------------
(* The callers of build_fts_query: the recall tool, the CLI search command *)
(* and SQLiteNoteStore.search. Each compiles the query it was given and    *)
(* searches the store only when the compiled expression is not empty.      *)

MaxQuery == 4

QueryChunks == { <<"a">>, <<SP>>, <<QT>>, <<"*">>, <<"O", "R">>, <<"t", "a", "g", ":">> }

NoReply == [caller |-> Nil, compiled |-> FALSE, message |-> "none",
            notes |-> <<>>, sessions |-> <<>>]

\* the query argument of the caller
TypeQuery(c) ==
    /\ called = "none"
    /\ nchunks < MaxQuery
    /\ raw' = raw \o c
    /\ nchunks' = nchunks + 1
    /\ UNCHANGED <<called, result>>
    /\ UNCHANGED <<svars, evars, cvars, rvars, gvars, yvars>>

\* what the engine can answer to a compiled expression: how it reads the
\* expression is the engine's business, so every reading is possible
NotesFound(limit) == UNION {SearchResults(notes, e, limit) : e \in MatchExprs}
SessionsFound(limit) == UNION {SessionSearchResults(sessions, e, limit) : e \in MatchExprs}

\* the test "if not fts_expr" is left out: every expression is searched
NeverEmpty(fts_expr) == FALSE

\* "if not fts_expr"
IsEmptyExpr(fts_expr) == fts_expr = <<>>

\* format_recall_results: the same message when both lists are empty
RecallMessage(found_notes, found_sessions) ==
    IF found_notes = <<>> /\ found_sessions = <<>> THEN "no_results" ELSE "results"

\* recall(query, scope, limit); opened is whether _get_store() succeeded
Recall(scope, limit, opened) ==
    /\ called = "none"
    /\ called' = "recall"
    /\ IF ~opened
       THEN /\ reply' = [NoReply EXCEPT !.caller = "recall", !.message = "error"]
            /\ UNCHANGED <<result, matched>>
       ELSE LET fts_expr == build_fts_query(raw)
            IN  /\ result' = fts_expr
                /\ IF IsEmptyExpr(fts_expr)
                   THEN /\ reply' = [NoReply EXCEPT !.caller = "recall", !.compiled = TRUE,
                                                    !.message = "no_results"]
                        /\ UNCHANGED matched
                   ELSE /\ \E ns \in (IF scope \in {"all", "notes"}
                                      THEN NotesFound(limit) ELSE {<<>>}),
                              ss \in (IF scope \in {"all", "sessions"}
                                      THEN SessionsFound(limit) ELSE {<<>>}) :
                               reply' = [caller |-> "recall", compiled |-> TRUE,
                                         message |-> RecallMessage(ns, ss),
                                         notes |-> ns, sessions |-> ss]
                        /\ matched' = matched
                               \cup (IF scope \in {"all", "notes"} THEN {"search_notes"} ELSE {})
                               \cup (IF scope \in {"all", "sessions"} THEN {"search_sessions"} ELSE {})
    /\ UNCHANGED <<raw, nchunks>>
    /\ UNCHANGED <<svars, evars, rvars, gvars, yvars>>

\* the CLI command "kraang search"; exists is whether the database file exists
CliSearch(limit, exists) ==
    /\ called = "none"
    /\ called' = "cli"
    /\ IF ~exists
       THEN /\ reply' = [NoReply EXCEPT !.caller = "cli", !.message = "exit"]
            /\ UNCHANGED <<result, matched>>
       ELSE LET fts_expr == build_fts_query(raw)
            IN  /\ result' = fts_expr
                /\ IF IsEmptyExpr(fts_expr)
                   THEN /\ reply' = [NoReply EXCEPT !.caller = "cli", !.compiled = TRUE,
                                                    !.message = "no_terms"]
                        /\ UNCHANGED matched
                   ELSE /\ \E ns \in NotesFound(limit), ss \in SessionsFound(limit) :
                               reply' = [caller |-> "cli", compiled |-> TRUE,
                                         message |-> "results",
                                         notes |-> ns, sessions |-> ss]
                        /\ matched' = matched \cup {"search_notes", "search_sessions"}
    /\ UNCHANGED <<raw, nchunks>>
    /\ UNCHANGED <<svars, evars, rvars, gvars, yvars>>

\* SQLiteNoteStore.search(query): the count statement and the results
\* statement, both with "notes_fts MATCH ?"; an expression the engine rejects
\* raises out of search
NoteStoreSearch(limit) ==
    /\ called = "none"
    /\ called' = "search"
    /\ LET fts_expr == build_fts_query(raw)
       IN  /\ result' = fts_expr
           /\ IF IsEmptyExpr(fts_expr)
              THEN /\ reply' = [NoReply EXCEPT !.caller = "search", !.compiled = TRUE,
                                               !.message = "no_results"]
                   /\ UNCHANGED matched
              ELSE /\ \/ \E e \in Terms : \E ns \in SearchResults(notes, e, limit) :
                             reply' = [caller |-> "search", compiled |-> TRUE,
                                       message |-> "results",
                                       notes |-> ns, sessions |-> <<>>]
                      \/ reply' = [NoReply EXCEPT !.caller = "search", !.compiled = TRUE,
                                                  !.message = "raised"]
                   /\ matched' = matched \cup {"MATCH"}
    /\ UNCHANGED <<raw, nchunks>>
    /\ UNCHANGED <<svars, evars, rvars, gvars, yvars>>

Scopes == {"all", "notes", "sessions"}

CNext ==
    \/ \E c \in QueryChunks : TypeQuery(c)
    \/ \E scope \in Scopes, n \in Limits, opened \in BOOLEAN : Recall(scope, n, opened)
    \/ \E n \in Limits, exists \in BOOLEAN : CliSearch(n, exists)
    \/ \E n \in Limits : NoteStoreSearch(n)

-----------------------------------------------------------------------------
(* deduplicate_results (src/src/krang/search.py)                           *)

MaxHits == 4

\* a SearchResult: the id of its note, its score and its snippet
HitIds      == {1, 2}
HitScores   == {1, 2}
HitSnippets == {"s", "t"}

\* "r.score >= seen[nid].score": the later of two equal entries replaces the earlier
AtLeastAsGood(r, old) == r.score >= old.score

\* "r.score > seen[nid].score"
Better(r, old) == r.score > old.score

\* the loop over results: seen is the dict, as the sequence of its values in
\* insertion order (a dict keeps the place of a key whose value is replaced)
RECURSIVE SeenFrom(_, _, _)
SeenFrom(results, i, seen) ==
    IF i > Len(results) THEN seen
    ELSE LET r == results[i]
             at == {k \in 1..Len(seen) : seen[k].note_id = r.note_id}
         IN  IF at = {} THEN SeenFrom(results, i + 1, Append(seen, r))
             ELSE LET k == CHOOSE k \in at : TRUE
                  IN  IF Better(r, seen[k])
                      THEN SeenFrom(results, i + 1, [seen EXCEPT ![k] = r])
                      ELSE SeenFrom(results, i + 1, seen)

\* sorted(values, key=lambda r: r.score, reverse=True): a stable sort, equal
\* scores stay in the order they had
RECURSIVE SortedByScore(_)
SortedByScore(values) ==
    IF values = <<>> THEN <<>>
    ELSE LET m == CHOOSE i \in 1..Len(values) :
                      \A j \in 1..Len(values) :
                          \/ values[i].score > values[j].score
                          \/ (values[i].score = values[j].score /\ i <= j)
             rest == [k \in 1..(Len(values) - 1) |->
                          IF k < m THEN values[k] ELSE values[k + 1]]
         IN  <<values[m]>> \o SortedByScore(rest)

deduplicate_results(results) == SortedByScore(SeenFrom(results, 1, <<>>))

\* a search result arrives in the list
AddHit(id, score, snippet) ==
    /\ ~deduped.done
    /\ Len(hits) < MaxHits
    /\ hits' = Append(hits, [note_id |-> id, score |-> score, snippet |-> snippet])
    /\ UNCHANGED deduped
    /\ UNCHANGED <<qvars, svars, evars, cvars, gvars, yvars>>

Deduplicate ==
    /\ ~deduped.done
    /\ deduped' = [done |-> TRUE, list |-> deduplicate_results(hits)]
    /\ UNCHANGED hits
    /\ UNCHANGED <<qvars, svars, evars, cvars, gvars, yvars>>

RNext ==
    \/ \E id \in HitIds, score \in HitScores, snippet \in HitSnippets : AddHit(id, score, snippet)
    \/ Deduplicate

-----------------------------------------------------------------------------
(* generate_snippet (src/src/krang/search.py)                              *)

\* the letter U+0130, capital I with dot above, and U+0307, the combining
\* dot above: str.lower() turns the one letter into the two characters i, U+0307
DOTTED_I      == "U+0130"
COMBINING_DOT == "U+0307"

HIGHLIGHT_OPEN  == <<">", ">", ">">>
HIGHLIGHT_CLOSE == <<"<", "<", "<">>
ELLIPSIS        == <<".", ".", ".">>

\* str.lower(): one character at a time, and not always to one character
RECURSIVE StrLower(_)
StrLower(s) ==
    IF s = <<>> THEN <<>>
    ELSE (IF s[1] = DOTTED_I THEN <<"i", COMBINING_DOT>> ELSE <<Lower(s[1])>>)
             \o StrLower(Tail(s))

\* how re.IGNORECASE compares two characters: by their simple lowercase
SimpleLower(c) == IF c = DOTTED_I THEN "i" ELSE Lower(c)

\* t.strip('"')
RECURSIVE StripQuotes(_)
StripQuotes(t) ==
    IF t = <<>> THEN t
    ELSE IF t[1] = QT THEN StripQuotes(Tail(t))
    ELSE IF t[Len(t)] = QT THEN StripQuotes(SubSeq(t, 1, Len(t) - 1))
    ELSE t

\* [t.strip('"').lower() for t in query_terms if t.strip('"')]
RECURSIVE CleanTerms(_)
CleanTerms(query_terms) ==
    IF query_terms = <<>> THEN <<>>
    ELSE (IF StripQuotes(query_terms[1]) = <<>> THEN <<>>
          ELSE <<StrLower(StripQuotes(query_terms[1]))>>)
             \o CleanTerms(Tail(query_terms))

\* str.find: the offset (from 0) of the first occurrence of term, or -1
Find(text, term) ==
    LET at == {p \in 0..(Len(text) - Len(term)) : OccursAt(text, term, p + 1)}
    IN  IF at = {} THEN -1 ELSE CHOOSE p \in at : \A q \in at : p <= q

\* the loop that finds the position of the first matching term
RECURSIVE FirstPos(_, _, _)
FirstPos(lower_content, clean_terms, first_pos) ==
    IF clean_terms = <<>> THEN first_pos
    ELSE LET pos == Find(lower_content, clean_terms[1])
         IN  FirstPos(lower_content, Tail(clean_terms),
                      IF pos # -1 /\ pos < first_pos THEN pos ELSE first_pos)

Max(a, b) == IF a > b THEN a ELSE b
Min(a, b) == IF a < b THEN a ELSE b

\* content[start:end], offsets from 0
Slice(s, start, end) == SubSeq(s, start + 1, Min(end, Len(s)))

\* whether the pattern of a term matches the window at position i (from 1)
MatchesAt(window, term, i) ==
    /\ i + Len(term) - 1 <= Len(window)
    /\ \A k \in 1..Len(term) : SimpleLower(window[i + k - 1]) = SimpleLower(term[k])

\* pattern.sub(lambda m: OPEN + m.group(0) + CLOSE, window): the matches are
\* taken left to right and do not overlap
RECURSIVE Highlight(_, _, _)
Highlight(window, term, i) ==
    IF i > Len(window) THEN <<>>
    ELSE IF MatchesAt(window, term, i)
         THEN HIGHLIGHT_OPEN \o SubSeq(window, i, i + Len(term) - 1) \o HIGHLIGHT_CLOSE
                  \o Highlight(window, term, i + Len(term))
         ELSE <<window[i]>> \o Highlight(window, term, i + 1)

\* the loop that inserts the markers, one term after the other
RECURSIVE HighlightAll(_, _)
HighlightAll(window, clean_terms) ==
    IF clean_terms = <<>> THEN window
    ELSE HighlightAll(Highlight(window, clean_terms[1], 1), Tail(clean_terms))

generate_snippet(text, query_terms, max_length) ==
    IF text = <<>> \/ query_terms = <<>> THEN Slice(text, 0, max_length)
    ELSE LET lower_content == StrLower(text)
             clean_terms   == CleanTerms(query_terms)
             first_pos     == FirstPos(lower_content, clean_terms, Len(text))
         IN  IF first_pos = Len(text) THEN Slice(text, 0, max_length)
             ELSE LET half   == max_length \div 2
                      start0 == Max(0, first_pos - half)
                      end    == Min(Len(text), start0 + max_length)
                      start  == IF end = Len(text) THEN Max(0, end - max_length) ELSE start0
                      window == HighlightAll(Slice(text, start, end), clean_terms)
                  IN  (IF start > 0 THEN ELLIPSIS ELSE <<>>) \o window
                          \o (IF end < Len(text) THEN ELLIPSIS ELSE <<>>)

\* the inputs of generate_snippet
\* krang.search.build_fts_query is called on the query typed
CallKrangBuild ==
    /\ called = "none"
    /\ called' = "krang_build"
    /\ result' = krang_build_fts_query(raw)
    /\ UNCHANGED <<raw, nchunks>>
    /\ UNCHANGED <<svars, xvars>>

\* a query is typed and compiled by one package or the other
CompilersNext ==
    \/ \E c \in QueryChunks : Type(c)
    \/ CallBuild
    \/ CallKrangBuild

MaxContent == 4
MaxTerms   == 2
MaxLength  == 3

ContentChars == {"a", "A", "b", DOTTED_I}
QueryTerms   == { <<"a">>, <<"b">>, <<"a", "b">>, <<QT, "A", QT>>, <<QT>> }

TypeContent(c) ==
    /\ ~snip.done
    /\ Len(body) < MaxContent
    /\ body' = Append(body, c)
    /\ UNCHANGED <<wanted, snip>>
    /\ UNCHANGED <<qvars, svars, evars, cvars, rvars, yvars>>

AddTerm(t) ==
    /\ ~snip.done
    /\ Len(wanted) < MaxTerms
    /\ wanted' = Append(wanted, t)
    /\ UNCHANGED <<body, snip>>
    /\ UNCHANGED <<qvars, svars, evars, cvars, rvars, yvars>>

GenerateSnippet(max_length) ==
    /\ ~snip.done
    /\ snip' = [done |-> TRUE, max_length |-> max_length,
                text |-> generate_snippet(body, wanted, max_length)]
    /\ UNCHANGED <<body, wanted>>
    /\ UNCHANGED <<qvars, svars, evars, cvars, rvars, yvars>>

GNext ==
    \/ \E c \in ContentChars : TypeContent(c)
    \/ \E t \in QueryTerms : AddTerm(t)
    \/ \E n \in 1..MaxLength : GenerateSnippet(n)

\* --- get_session ----------------------------------------------------------

\* "session_id LIKE ?": % matches any run of characters, _ any one character,
\* and letters match without regard to case
RECURSIVE Like(_, _)
Like(s, pat) ==
    IF pat = <<>> THEN s = <<>>
    ELSE IF Head(pat) = "%"
         THEN \E k \in 0..Len(s) : Like(SubSeq(s, k + 1, Len(s)), Tail(pat))
    ELSE /\ s # <<>>
         /\ Head(pat) = "_" \/ Lower(Head(pat)) = Lower(Head(s))
         /\ Like(Tail(s), Tail(pat))

\* "SELECT * FROM sessions WHERE session_id LIKE ? LIMIT 2" with prefix + "%":
\* any two of the rows that match, in any order
LikeRows(table, prefix) ==
    {Limit(o, 2) :
        o \in Orderings({r \in table : Like(r.session_id, prefix \o <<"%">>)})}

\* candidates = [r["session_id"][:12] for r in rows]
CandidatesOf(rows) ==
    [k \in 1..Len(rows) |-> SubSeq(rows[k].session_id, 1, CandidateLen)]

\* what get_session returns or raises
Found(row)       == [kind |-> "session", session |-> row, candidates |-> <<>>]
NotFound         == [kind |-> Absent.kind, session |-> Nil, candidates |-> <<>>]
Ambiguous(names) == [kind |-> "ValueError", session |-> Nil, candidates |-> names]

\* everything get_session(session_id_prefix) can do on this table
get_session(table, session_id_prefix) ==
    IF Len(session_id_prefix) < IdLen
    THEN {IF Len(rows) = 0 THEN NotFound
          ELSE IF Len(rows) > 1 THEN Ambiguous(CandidatesOf(rows))
          ELSE Found(rows[1]) : rows \in LikeRows(table, session_id_prefix)}
    ELSE LET found == {r \in table : r.session_id = session_id_prefix}
         IN  IF found = {} THEN {NotFound} ELSE {Found(r) : r \in found}

\* the prefixes and ids callers ask for
Prefixes ==
    { <<>>, <<"a">>, <<"A">>, <<"b">>, <<"a", "a">>, <<"a", "b">>, <<"_", "a">>,
      <<"a", "a", "a">>, <<"a", "b", "b">> }

\* a call of get_session(session_id_prefix)
GetSession(session_id_prefix) ==
    /\ \E r \in get_session(sessions, session_id_prefix) :
           lookup' = [op |-> "get_session", prefix |-> session_id_prefix, ret |-> r]
    /\ UNCHANGED <<qvars, svars, evars, cvars, rvars, gvars, kvars, ivars>>

SessionsNext ==
    \/ \E id \in SessionIds, text \in Terms : UpsertSession(id, text)
    \/ \E p \in Prefixes : GetSession(p)

\* session ids as the tests of the store write them: one is shorter than a
\* UUID and is the beginning of another
LookupIds == { <<"a", "a">>, <<"a", "a", "b">>, <<"b", "a", "a">> }

\* the prefixes asked for besides the ids themselves
LookupPrefixes == { <<"a">>, <<"A">>, <<"a", "b">>, <<"_", "a">> }

\* the lookups of the store, by one caller: notes by id and by title,
\* sessions by id or prefix
LookupNext ==
    \/ \E title \in SearchedTitles :
           UpsertNote(title, "x", NoTags, NoCategory, Epoch)
    \/ \E title \in {<<"A">>, MissingTitle} : SetRelevance(title, 0, Epoch)
    \/ \E id \in {1, MaxNotes} : GetNote(id)
    \/ \E title \in {<<"A">>, MissingTitle} : GetNoteByTitle(title)
    \/ \E id \in LookupIds : UpsertSession(id, "x")
    \/ \E p \in LookupPrefixes \cup LookupIds : GetSession(p)

-----------------------------------------------------------------------------
(* index_sessions (src/src/kraang/indexer.py): the session files of the    *)
(* project are scanned, and those that changed are parsed and upserted     *)

\* st_mtime and st_size of a file go up to these
MaxMtime == 1
MaxSize  == 2

\* the stems of the session files, in the order sorted(glob("*.jsonl")) lists them
FileOrder == << <<"a", "a", "a">>, <<"b", "a", "a">> >>
FileStems == {FileOrder[k] : k \in 1..Len(FileOrder)}

\* a file on disk: text is the user and assistant text parse_jsonl finds in
\* it, Nil when it finds none
NoFile == [exists |-> FALSE, mtime |-> 0, size |-> 0, text |-> Nil]

\* parse_jsonl returned None
NoSession == StoredSession(<<>>, Nil, 0, 0)

\* parse_jsonl(jsonl_path): None for a missing or empty file and for one
\* without user or assistant text; session_id is the stem of the path
parse_jsonl(stem, file) ==
    IF ~file.exists \/ file.size = 0 \/ file.text = Nil THEN NoSession
    ELSE StoredSession(stem, file.text, file.mtime, file.size)

\* every file is parsed and upserted again on every run
AlwaysReindex(table, session_id, mtime, size) == TRUE

\* needs_reindex(session_id, mtime, size)
needs_reindex(table, session_id, mtime, size) ==
    LET rows == {r \in table : r.session_id = session_id}
    IN  IF rows = {} THEN TRUE
        ELSE \E r \in rows : r.source_mtime # mtime \/ r.source_size # size

\* find_session_files(root): the files that exist, sorted
find_session_files(disk) == SelectSeq(FileOrder, LAMBDA f : disk[f].exists)

\* the loop of index_sessions over the files todo: the table it leaves and
\* the ids it indexed, in order
RECURSIVE IndexFiles(_, _, _, _)
IndexFiles(table, disk, todo, done) ==
    IF todo = <<>> THEN [table |-> table, indexed |-> done]
    ELSE LET session_id == Head(todo)
             stat       == disk[session_id]
             session    == parse_jsonl(session_id, stat)
         IN  IF ~needs_reindex(table, session_id, stat.mtime, stat.size)
             THEN IndexFiles(table, disk, Tail(todo), done)
             ELSE IF session = NoSession
             THEN IndexFiles(table, disk, Tail(todo), done)
             ELSE IndexFiles(ReplaceSession(table, session), disk, Tail(todo),
                            Append(done, session_id))

\* index_sessions has not run on the files as they are now
NoRun == [op |-> "none", scanned |-> <<>>, indexed |-> 0, reindexed |-> <<>>, before |-> {}]

\* single_file is not given
NoStem == <<>>

\* a session file is created or written to: its size grows by grow, its
\* mtime moves on by tick, and it holds the text given
WriteFile(f, text, grow, tick) ==
    /\ files[f].size + grow <= MaxSize
    /\ files[f].mtime + tick <= MaxMtime
    /\ LET size == files[f].size + grow
       IN  files' = [files EXCEPT ![f] = [exists |-> TRUE, mtime |-> files[f].mtime + tick,
                                          size |-> size,
                                          text |-> IF size = 0 THEN Nil ELSE text]]
    /\ files' # files
    /\ run' = NoRun
    /\ UNCHANGED <<server, writer>>
    /\ UNCHANGED <<qvars, svars, evars, cvars, rvars, gvars, kvars, lvars>>

\* index_sessions(store, single_file=single)
IndexSessions(single) ==
    /\ lock = Nil
    /\ single # NoStem => files[single].exists
    /\ LET todo == IF single # NoStem THEN <<single>> ELSE find_session_files(files)
           out  == IndexFiles(sessions, files, todo, <<>>)
       IN  /\ sessions' = out.table
           /\ run' = [op |-> "index_sessions", scanned |-> todo,
                      indexed |-> Len(out.indexed), reindexed |-> out.indexed,
                      before |-> sessions]
    /\ prevs' = sessions
    /\ lookup' = NoLookup
    /\ UNCHANGED <<files, server, writer>>
    /\ UNCHANGED <<qvars, svars, cvars, rvars, gvars, kvars>>

IndexNext ==
    \/ \E f \in FileStems, text \in {"x", Nil}, grow \in {0, 1}, tick \in {0, 1} :
           WriteFile(f, text, grow, tick)
    \/ \E single \in FileStems \cup {NoStem} : IndexSessions(single)

-----------------------------------------------------------------------------
(* kraang.server: the store singleton, initialised lazily on the first     *)
(* tool call. Tool calls are asyncio tasks; a task runs until it awaits.   *)

\* the tool calls the server is handling
Callers == {"c1", "c2", "c3"}

\* the awaits of SQLiteStore.initialize: connect, three PRAGMAs,
\* executescript, commit. A store has completed 0..InitSteps of them;
\* _db is set by the first, the tables exist after the fifth
InitSteps  == 6
SchemaStep == 5

\* _store = None
NoStore == 0

IdleCaller == [pc |-> "idle", got |-> NoStore, outcome |-> "none"]

\* the module after import: no store, no tool call
ServerInit == [store |-> NoStore, stores |-> <<>>, calls |-> [c \in Callers |-> IdleCaller]]

\* a tool is called and runs _get_store() up to its first await: with
\* _store None it creates a SQLiteStore, assigns it to _store and awaits
\* initialize(); otherwise it returns _store at once
ToolCall(c) ==
    /\ server.calls[c].pc = "idle"
    /\ IF server.store = NoStore
       THEN server' = [server EXCEPT !.stores = Append(@, 0),
                                     !.store = Len(server.stores) + 1,
                                     !.calls[c] = [IdleCaller EXCEPT !.pc = "initialize"]]
       ELSE server' = [server EXCEPT !.calls[c] = [IdleCaller EXCEPT !.pc = "has_store",
                                                                    !.got = server.store]]
    /\ UNCHANGED <<files, run, writer>>
    /\ UNCHANGED <<qvars, svars, evars, cvars, rvars, gvars, kvars, lvars>>

\* one await of "await _store.initialize()" completes; after the last,
\* _get_store returns _store
InitStep(c) ==
    /\ server.calls[c].pc = "initialize"
    /\ LET n == server.store
       IN  server' = [server EXCEPT
                         !.stores[n] = @ + 1,
                         !.calls[c] = IF server.stores[n] + 1 = InitSteps
                                      THEN [@ EXCEPT !.pc = "has_store", !.got = n]
                                      ELSE @]
    /\ UNCHANGED <<files, run, writer>>
    /\ UNCHANGED <<qvars, svars, evars, cvars, rvars, gvars, kvars, lvars>>

\* the tool uses the store it was handed: _conn raises RuntimeError while
\* _db is None, and the tables are missing until the schema script has run
UseStore(c) ==
    /\ server.calls[c].pc = "has_store"
    /\ LET done == server.stores[server.calls[c].got]
       IN  server' = [server EXCEPT
                         !.calls[c] = [@ EXCEPT !.pc = "done",
                                                !.outcome = IF done = 0 THEN "RuntimeError"
                                                            ELSE IF done < SchemaStep THEN "no schema"
                                                            ELSE "ok"]]
    /\ UNCHANGED <<files, run, writer>>
    /\ UNCHANGED <<qvars, svars, evars, cvars, rvars, gvars, kvars, lvars>>

\* the tool call returns to its client
Return(c) ==
    /\ server.calls[c].pc = "done"
    /\ server' = [server EXCEPT !.calls[c] = [@ EXCEPT !.pc = "idle"]]
    /\ UNCHANGED <<files, run, writer>>
    /\ UNCHANGED <<qvars, svars, evars, cvars, rvars, gvars, kvars, lvars>>

ServerNext ==
    \/ \E c \in Callers : ToolCall(c)
    \/ \E c \in Callers : InitStep(c)
    \/ \E c \in Callers : UseStore(c)
    \/ \E c \in Callers : Return(c)

-----------------------------------------------------------------------------
(* upsert_session statement by statement, with other tasks reading the     *)
(* sessions table through the same connection between its awaits           *)

\* no upsert_session is in progress
IdleWriter == [pc |-> "idle", row |-> NoSession, old |-> NoSession, count |-> 0]

\* upsert_session(session) up to the end of its first await: the lock is
\* taken and "DELETE FROM sessions WHERE session_id = ?" has run
BeginUpsert(id, text) ==
    /\ lock = Nil
    /\ writer.pc = "idle"
    /\ lock' = "writer"
    /\ sessions' = {r \in sessions : r.session_id # id}
    /\ writer' = [pc |-> "deleted", row |-> SessionRow(id, text),
                  old |-> IF \E r \in sessions : r.session_id = id
                          THEN CHOOSE r \in sessions : r.session_id = id
                          ELSE NoSession,
                  count |-> Cardinality(sessions)]
    /\ prevs' = sessions
    /\ prev' = notes
    /\ last' = [NoCall EXCEPT !.name = "upsert_session", !.title = id, !.content = text]
    /\ lookup' = NoLookup
    /\ UNCHANGED <<notes, tasks, drawn, returned, files, run, server>>
    /\ UNCHANGED <<qvars, cvars, rvars, gvars, kvars>>

\* "await self._conn.execute(INSERT INTO sessions ...)"
InsertStep ==
    /\ writer.pc = "deleted"
    /\ sessions' = sessions \cup {writer.row}
    /\ writer' = [writer EXCEPT !.pc = "inserted"]
    /\ lookup' = NoLookup
    /\ last' = [NoCall EXCEPT !.name = "upsert_session", !.title = writer.row.session_id,
                              !.content = writer.row.text]
    /\ UNCHANGED <<notes, prev, lock, tasks, drawn, returned, prevs, files, run, server>>
    /\ UNCHANGED <<qvars, cvars, rvars, gvars, kvars>>

\* "await self._conn.commit()" and the end of "async with self._write_lock"
CommitStep ==
    /\ writer.pc = "inserted"
    /\ writer' = IdleWriter
    /\ lock' = Nil
    /\ UNCHANGED <<notes, prev, last, tasks, drawn, returned, files, run, server>>
    /\ UNCHANGED <<qvars, evars, cvars, rvars, gvars, kvars, lvars>>

\* count_sessions()
CountSessions ==
    /\ lookup' = [op |-> "count_sessions", prefix |-> <<>>,
                  ret |-> [kind |-> "count", value |-> Cardinality(sessions)]]
    /\ UNCHANGED <<qvars, svars, evars, cvars, rvars, gvars, kvars, ivars>>

\* needs_reindex(session_id, mtime, size)
NeedsReindex(session_id, mtime, size) ==
    /\ lookup' = [op |-> "needs_reindex", prefix |-> session_id,
                  ret |-> [kind |-> "bool",
                           value |-> needs_reindex(sessions, session_id, mtime, size)]]
    /\ UNCHANGED <<qvars, svars, evars, cvars, rvars, gvars, kvars, ivars>>

\* one task upserts sessions while others read the table
AtomicNext ==
    \/ \E id \in SearchedIds, text \in Terms : BeginUpsert(id, text)
    \/ InsertStep
    \/ CommitStep
    \/ \E id \in SearchedIds : GetSession(id)
    \/ CountSessions
    \/ \E id \in SearchedIds : NeedsReindex(id, 0, 0)
    \/ \E e \in Terms : SearchSessions(e, DefaultLimit)

-----------------------------------------------------------------------------
(* krang: the notes table of SQLiteNoteStore                               *)
(* (src/src/krang/sqlite_store.py) and the functions of                    *)
(* src/src/krang/search.py that read a NoteStore                           *)

\* NoteStatus
ACTIVE   == "active"
ARCHIVED == "archived"

\* how many notes create() is called for
MaxStored == 3

\* the categories callers give; "" is the default, no category
Categories == {"", "db"}

\* the row create() inserts: active, updated now
CreatedNote(id, category, now) ==
    [note_id |-> id, category |-> category, status |-> ACTIVE, updated_at |-> now]

\* nothing has been asked of the store as it is now
NoAnswer == [op |-> "none"]

\* SQLiteNoteStore.create(note)
Create(category) ==
    /\ Cardinality(knotes) < MaxStored
    /\ knotes' = knotes \cup {CreatedNote(Cardinality(knotes) + 1, category, clock)}
    /\ answer' = NoAnswer
    /\ UNCHANGED clock
    /\ UNCHANGED <<qvars, svars, evars, cvars, rvars, gvars, lvars, ivars>>

\* --- _escape_fts ----------------------------------------------------------

\* the character class [^\w\s"] of krang's _FTS5_SPECIAL
IsEscapeSpecial(c) == ~IsWordChar(c) /\ ~IsSpace(c) /\ c # QT

\* _FTS5_SPECIAL.sub(" ", text): every maximal run of the class becomes one space
RECURSIVE SubSpecialFrom(_, _)
SubSpecialFrom(text, i) ==
    IF i > Len(text) THEN <<>>
    ELSE IF IsEscapeSpecial(text[i])
         THEN (IF i > 1 /\ IsEscapeSpecial(text[i - 1]) THEN <<>> ELSE <<SP>>)
                  \o SubSpecialFrom(text, i + 1)
         ELSE <<text[i]>> \o SubSpecialFrom(text, i + 1)

\* the part _escape_fts appends for one token
EscapePart(tok) ==
    IF tok[1] = QT /\ tok[Len(tok)] = QT THEN tok
    ELSE IF UpperStr(tok) \in BOOLEAN_OPS THEN UpperStr(tok)
    ELSE <<QT>> \o tok \o <<QT>>

\* the string '""'
EmptyPhrase == <<QT, QT>>

\* _escape_fts(raw)
escape_fts(s) ==
    IF IsBlank(s) THEN EmptyPhrase
    ELSE LET phrases == QuotedPhrases(s)
             stashed == SubPhrases(s, "stash")
             text    == RestoreFrom(SubSpecialFrom(stashed, 1), phrases, 0)
             tokens  == Split(text)
             parts   == [k \in 1..Len(tokens) |-> EscapePart(tokens[k])]
         IN  IF parts = <<>> THEN EmptyPhrase ELSE Join(parts)

\* --- "notes_fts MATCH ?" --------------------------------------------------

\* the closing quote of the FTS5 string whose text starts at i, or 0 if the
\* string is unterminated; "" inside a string is an escaped quote
RECURSIVE StringEnd(_, _)
StringEnd(s, i) ==
    IF i > Len(s) THEN 0
    ELSE IF s[i] # QT THEN StringEnd(s, i + 1)
    ELSE IF i < Len(s) /\ s[i + 1] = QT THEN StringEnd(s, i + 2)
    ELSE i

\* the last character of the bareword that starts at i
RECURSIVE BarewordEnd(_, _)
BarewordEnd(s, i) ==
    IF i < Len(s) /\ ~IsSpace(s[i + 1]) /\ s[i + 1] # QT THEN BarewordEnd(s, i + 1)
    ELSE i

\* the items the FTS5 parser reads from the expression: "phrase", "op", or
\* "error" where it gives up
RECURSIVE Fts5ItemsFrom(_, _)
Fts5ItemsFrom(s, i) ==
    IF i > Len(s) THEN <<>>
    ELSE IF IsSpace(s[i]) THEN Fts5ItemsFrom(s, i + 1)
    ELSE IF s[i] = QT
         THEN LET j == StringEnd(s, i + 1)
              IN  IF j = 0 THEN <<"error">>
                  ELSE <<"phrase">> \o Fts5ItemsFrom(s, j + 1)
    ELSE LET j == BarewordEnd(s, i)
             w == SubSeq(s, i, j)
         IN  IF \E k \in 1..Len(w) : ~IsWordChar(w[k]) THEN <<"error">>
             ELSE <<IF w \in BOOLEAN_OPS THEN "op" ELSE "phrase">>
                      \o Fts5ItemsFrom(s, j + 1)

\* whether the engine takes the expression: phrases, with single binary
\* operators between them; otherwise execute() raises OperationalError
Fts5Accepts(expr) ==
    LET items == Fts5ItemsFrom(expr, 1)
    IN  /\ items # <<>>
        /\ \A k \in 1..Len(items) : items[k] # "error"
        /\ items[1] = "phrase"
        /\ items[Len(items)] = "phrase"
        /\ \A k \in 1..(Len(items) - 1) : ~(items[k] = "op" /\ items[k + 1] = "op")

\* --- SearchQuery and SQLiteNoteStore.search -------------------------------

\* SearchQuery.limit = Field(default=20, ge=1, le=100): SearchLimitMax stands
\* for 100
SearchLimitMax == 3

\* whether SearchQuery(query=..., limit=n) validates
ValidLimit(n) == 1 <= n /\ n <= SearchLimitMax

\* a call that returned a list, and a call that raised
ReturnedList(results) == [kind |-> "results", error |-> Nil, results |-> results]
RaisedError(error)    == [kind |-> "raised", error |-> error, results |-> <<>>]

\* everything store.search(SearchQuery(query, limit)) can do on this table: it
\* raises when the engine rejects the escaped expression; otherwise it returns
\* the note ids of the rows the engine matches, in bm25 order, cut at limit
StoreSearch(table, query, limit) ==
    IF ~Fts5Accepts(escape_fts(query)) THEN {RaisedError("OperationalError")}
    ELSE {ReturnedList(Limit(o, limit)) :
              o \in UNION {Orderings({r.note_id : r \in m}) : m \in SUBSET table}}

\* --- find_related ---------------------------------------------------------

\* the words of STOP_WORDS that the letters of the model spell
STOP_WORDS ==
    { <<"a">>, <<"a", "n">>, <<"a", "n", "d">>, <<"a", "t">>, <<"d", "o">>,
      <<"n", "o">>, <<"n", "o", "r">>, <<"n", "o", "t">>, <<"o", "n">>,
      <<"o", "r">>, <<"t", "o">>, <<"t", "o", "o">> }

\* the regex class [A-Za-z0-9]
IsAlnum(c) == IsWordChar(c) /\ c # "_"

\* re.findall(r"[A-Za-z0-9]+", s)
RECURSIVE AlnumRunsFrom(_, _, _)
AlnumRunsFrom(s, i, word) ==
    IF i > Len(s) THEN (IF word = <<>> THEN <<>> ELSE <<word>>)
    ELSE IF ~IsAlnum(s[i])
         THEN (IF word = <<>> THEN <<>> ELSE <<word>>) \o AlnumRunsFrom(s, i + 1, <<>>)
         ELSE AlnumRunsFrom(s, i + 1, Append(word, s[i]))

\* title_words
TitleWords(title) ==
    LET kept == SelectSeq(AlnumRunsFrom(title, 1, <<>>),
                          LAMBDA w : LowerStr(w) \notin STOP_WORDS /\ Len(w) > 1)
    IN  [k \in 1..Len(kept) |-> LowerStr(kept[k])]

\* list(dict.fromkeys(seq)): the first occurrence of each element, in order
RECURSIVE DictFromKeys(_, _)
DictFromKeys(seq, i) ==
    IF i > Len(seq) THEN <<>>
    ELSE (IF \E k \in 1..(i - 1) : seq[k] = seq[i] THEN <<>> ELSE <<seq[i]>>)
             \o DictFromKeys(seq, i + 1)

\* all_terms
AllTerms(note) ==
    DictFromKeys(TitleWords(note.title)
                     \o [k \in 1..Len(note.tags) |-> LowerStr(note.tags[k])], 1)

\* " OR ".join(f'"{t}"' for t in all_terms)
RECURSIVE OrJoin(_)
OrJoin(all_terms) ==
    IF all_terms = <<>> THEN <<>>
    ELSE IF Len(all_terms) = 1 THEN <<QT>> \o all_terms[1] \o <<QT>>
    ELSE <<QT>> \o all_terms[1] \o <<QT, SP, "O", "R", SP>> \o OrJoin(Tail(all_terms))

\* [r for r in response.results if r.note.note_id != note.note_id]
DropSelf(results, note_id) == SelectSeq(results, LAMBDA id : id # note_id)

\* everything find_related(note, store, limit) can do on this table
find_related(note, table, limit) ==
    LET all_terms == AllTerms(note)
    IN  IF all_terms = <<>> THEN {ReturnedList(<<>>)}
        ELSE IF ~ValidLimit(limit + 1) THEN {RaisedError("ValidationError")}
        ELSE {IF r.kind = "raised" THEN r
              ELSE ReturnedList(Limit(DropSelf(r.results, note.note_id), limit)) :
                  r \in StoreSearch(table, OrJoin(all_terms), limit + 1)}

\* the notes find_related is called for: any Note, stored or not
RelatedTitles == { <<"o", "r">>, <<"B", "a", "d", "-", "b", "a", "d">> }

RelatedTagLists ==
    { <<>>,
      << <<"D", "b">> >>,
      << <<"a", QT>> >>,
      << <<"a", QT>>, <<"b", QT>> >>,
      << <<QT, "o", "r", SP, "o", "r", QT>> >> }

\* the note is the first one created or the second
RelatedIds == {1, 2}

RelatedNotes ==
    [note_id : RelatedIds, title : RelatedTitles, tags : RelatedTagLists]

\* a call of find_related(note, store, limit) with limit >= 1
FindRelated(note, limit) ==
    /\ \E r \in find_related(note, knotes, limit) :
           answer' = [op |-> "find_related", note |-> note, limit |-> limit,
                      kind |-> r.kind, error |-> r.error, results |-> r.results]
    /\ UNCHANGED <<knotes, clock>>
    /\ UNCHANGED <<qvars, svars, evars, cvars, rvars, gvars, lvars, ivars>>

RelatedNext ==
    \/ \E c \in {""} : Create(c)
    \/ \E note \in RelatedNotes : \E limit \in 1..SearchLimitMax : FindRelated(note, limit)

\* --- find_stale_notes and build_daily_digest ------------------------------

\* the days datetime.now() goes through
MaxDay == 3

\* a day passes
Tick ==
    /\ clock < MaxDay
    /\ clock' = clock + 1
    /\ answer' = NoAnswer
    /\ UNCHANGED knotes
    /\ UNCHANGED <<qvars, svars, evars, cvars, rvars, gvars, lvars, ivars>>

\* SQLiteNoteStore.update(note_id, NoteUpdate(status=status)): the row gets the
\* status and updated_at = now
Update(id, status) ==
    /\ \E r \in knotes : r.note_id = id
    /\ knotes' = {IF r.note_id = id THEN [r EXCEPT !.status = status, !.updated_at = clock]
                  ELSE r : r \in knotes}
    /\ answer' = NoAnswer
    /\ UNCHANGED clock
    /\ UNCHANGED <<qvars, svars, evars, cvars, rvars, gvars, lvars, ivars>>

\* list_all(status=None, limit=100, offset=0): ListAllLimit stands for 100
ListAllLimit == 2

\* "ORDER BY updated_at DESC": rows updated at the same time come in any order
ByUpdatedDesc(rows) ==
    {o \in Orderings(rows) :
        \A i \in 1..(Len(o) - 1) : o[i].updated_at >= o[i + 1].updated_at}

\* everything list_all(status, limit) can return on this table; status Nil is None
list_all(table, status, limit) ==
    {Limit(o, limit) :
        o \in ByUpdatedDesc({r \in table : status = Nil \/ r.status = status})}

\* find_stale_notes(store, days=30), build_daily_digest's days=30: the model
\* counts in days, and StaleDays stands for 30
StaleDays == 2

\* stale.sort(key=days_since_update, reverse=True): stable, most stale first
RECURSIVE InsertStale(_, _)
InsertStale(sorted, item) ==
    IF sorted = <<>> THEN <<item>>
    ELSE IF Head(sorted).days_since_update >= item.days_since_update
         THEN <<Head(sorted)>> \o InsertStale(Tail(sorted), item)
         ELSE <<item>> \o sorted

RECURSIVE SortStale(_, _)
SortStale(items, i) ==
    IF i = 0 THEN <<>> ELSE InsertStale(SortStale(items, i - 1), items[i])

\* the list find_stale_notes builds from the notes list_all returned
StaleOf(all_active, now, days) ==
    LET cutoff == now - days
        old    == SelectSeq(all_active, LAMBDA n : n.updated_at < cutoff)
        stale  == [k \in 1..Len(old) |->
                      [note_id |-> old[k].note_id,
                       days_since_update |-> now - old[k].updated_at]]
    IN  SortStale(stale, Len(stale))

\* everything find_stale_notes(store, days) can return on this table
find_stale_notes(table, now, days) ==
    {StaleOf(all_active, now, days) : all_active \in list_all(table, ACTIVE, ListAllLimit)}

\* dict(category_counts): the non-empty categories of the notes, counted
CategoryCounts(all_notes) ==
    [c \in {all_notes[k].category : k \in {j \in 1..Len(all_notes) : all_notes[j].category # ""}}
        |-> Cardinality({k \in 1..Len(all_notes) : all_notes[k].category = c})]

\* recent: updated or created in the last 24 hours; a note is never created
\* after it was updated, so updated_at decides
RecentOf(all_notes, now) ==
    LET yesterday == now - 1
        recent    == SelectSeq(all_notes, LAMBDA n : n.updated_at >= yesterday)
    IN  [k \in 1..Len(recent) |-> recent[k].note_id]

\* everything build_daily_digest(store) can return on this table; the notes
\* of the model carry no tags, and tag_distribution is left out
build_daily_digest(table, now) ==
    {[total_notes |-> Len(all_notes),
      recent_notes |-> RecentOf(all_notes, now),
      category_distribution |-> CategoryCounts(all_notes),
      stale_count |-> Len(stale_items)] :
        all_notes \in list_all(table, Nil, ListAllLimit),
        stale_items \in find_stale_notes(table, now, StaleDays)}

\* the days callers ask for
DaysArgs == {-1, 0, StaleDays}

\* a call of find_stale_notes(store, days)
FindStaleNotes(days) ==
    /\ \E stale \in find_stale_notes(knotes, clock, days) :
           answer' = [op |-> "find_stale_notes", days |-> days, stale |-> stale]
    /\ UNCHANGED <<knotes, clock>>
    /\ UNCHANGED <<qvars, svars, evars, cvars, rvars, gvars, lvars, ivars>>

\* a call of build_daily_digest(store)
BuildDailyDigest ==
    /\ \E digest \in build_daily_digest(knotes, clock) :
           answer' = [op |-> "build_daily_digest", digest |-> digest]
    /\ UNCHANGED <<knotes, clock>>
    /\ UNCHANGED <<qvars, svars, evars, cvars, rvars, gvars, lvars, ivars>>

DigestNext ==
    \/ \E c \in Categories : Create(c)
    \/ \E id \in 1..MaxStored : \E status \in {ACTIVE, ARCHIVED} : Update(id, status)
    \/ Tick
    \/ \E days \in DaysArgs : FindStaleNotes(days)
    \/ BuildDailyDigest

-----------------------------------------------------------------------------
(* The specifications                                                      *)

SInit ==
    /\ notes = {}
    /\ prev = {}
    /\ last = NoCall
    /\ lock = Nil
    /\ tasks = [t \in Tasks |-> IdleTask]
    /\ drawn = 0
    /\ returned = {}

\* the sessions table is empty; no caller has answered, no search was made
XInit ==
    /\ sessions = {}
    /\ prevs = {}
    /\ reply = NoReply
    /\ matched = {}

\* no result list has been collected
RInit ==
    /\ hits = <<>>
    /\ deduped = [done |-> FALSE, list |-> <<>>]

\* no content and no terms have been given
GInit ==
    /\ body = <<>>
    /\ wanted = <<>>
    /\ snip = [done |-> FALSE, max_length |-> 0, text |-> <<>>]

\* the krang store is empty, it is day 0, nothing was asked
KInit ==
    /\ knotes = {}
    /\ clock = 0
    /\ answer = NoAnswer

\* get_session was not called
LInit == lookup = NoLookup

IInit ==
    /\ files = [f \in FileStems |-> NoFile]
    /\ run = NoRun
    /\ server = ServerInit
    /\ writer = IdleWriter

Init == QInit /\ SInit /\ XInit /\ RInit /\ GInit /\ KInit /\ LInit /\ IInit

\* the store, called by one caller
Spec == Init /\ [][Next]_vars

\* the store, called by concurrent tasks
SpecTasks == Init /\ [][NextTasks]_vars

\* the query functions and their caller
SpecQuery == Init /\ [][QNext]_vars

\* the callers of the compiler
SpecCallers == Init /\ [][CNext]_vars

\* generate_snippet and its inputs
SpecSnippet == Init /\ [][GNext]_vars

\* deduplicate_results and the list it is given
SpecRank == Init /\ [][RNext]_vars

\* notes and sessions, written and searched by one caller
SpecSearch == Init /\ [][SearchNext]_vars

\* the notes table with every column, written and read by one caller
SpecNotes == Init /\ [][NotesNext]_vars

\* the sessions table and get_session
SpecSessions == Init /\ [][SessionsNext]_vars

SpecLookup == Init /\ [][LookupNext]_vars

SpecIndex == Init /\ [][IndexNext]_vars

SpecCompilers == Init /\ [][CompilersNext]_vars

SpecServer == Init /\ [][ServerNext]_vars

SpecAtomic == Init /\ [][AtomicNext]_vars

\* the krang store and find_related
SpecRelated == Init /\ [][RelatedNext]_vars

\* the krang store, find_stale_notes and build_daily_digest
SpecDigest == Init /\ [][DigestNext]_vars

-----------------------------------------------------------------------------
(* C1: after any sequence of upsert_note and set_relevance calls,          *)
(* search_notes never returns a note whose stored relevance is 0.0,        *)
(* whatever the match expression and the scores the engine gives.          *)

\* the results of the last call, when it was a search
LastResults == IF last.name = "search_notes" THEN last.ret.results ELSE <<>>

C1_ForgottenNeverReturned ==
    \A i \in 1..Len(LastResults) :
        /\ LastResults[i].note \in notes
        /\ LastResults[i].note.relevance # 0

\* a search that returned a note while a forgotten note matched its expression
C1_Witness ==
    /\ LastResults # <<>>
    /\ \E r \in notes : r.relevance = 0 /\ Matches(r, last.fts_expr)

-----------------------------------------------------------------------------
(* C2: upsert_note on a title that normalizes to the key of a note whose   *)
(* relevance was set to 0.0 returns created=False and relevance 1.0,       *)
(* stores relevance 1.0, and the note is returned again by every search    *)
(* for its text whose limit has room for the matching notes.               *)

\* the note of the last call, before and after the call
LastKey    == normalize_title(last.title)
LastBefore == RowByKey(prev, LastKey)
LastAfter  == RowByKey(notes, LastKey)

ReUpsertOfForgotten ==
    /\ last.name = "upsert_note"
    /\ LastBefore # NoRow
    /\ LastBefore.relevance = 0

C2_UpsertRestoresRelevance ==
    ReUpsertOfForgotten =>
        /\ last.ret.created = FALSE
        /\ last.ret.note.relevance = FullRelevance
        /\ last.ret.note.note_id = LastBefore.note_id
        /\ LastAfter.relevance = FullRelevance
        /\ \A n \in Limits :
               Cardinality(Candidates(notes, LastAfter.content)) <= n =>
                   \A res \in SearchResults(notes, LastAfter.content, n) :
                       \E i \in 1..Len(res) : res[i].note = LastAfter

\* a forgotten note upserted again under another spelling of its title
C2_Witness ==
    /\ ReUpsertOfForgotten
    /\ last.title # LastBefore.title
    /\ last.ret.created = FALSE
    /\ LastAfter.relevance = FullRelevance

-----------------------------------------------------------------------------
(* C3: under any interleaving of concurrent upsert_note calls, no call     *)
(* raises; for each key the store holds one note, exactly one call reports *)
(* created=True and all calls return that note's id; calls with distinct   *)
(* keys return distinct notes.                                             *)

RowsWithKey(k) == {r \in notes : r.title_normalized = k}

C3_UpsertsSerialized ==
    /\ \A r \in returned : r.kind = "note"
    /\ \A r \in notes : Cardinality(RowsWithKey(r.title_normalized)) = 1
    /\ \A r \in returned :
           LET same == {q \in returned : q.key = r.key}
           IN  /\ Cardinality(RowsWithKey(r.key)) = 1
               /\ r.note_id = RowByKey(notes, r.key).note_id
               /\ Cardinality({q \in same : q.created}) = 1
    /\ \A r, q \in returned : r.key # q.key => r.note_id # q.note_id

\* a task that called upsert_note before the note of its key was created by
\* another call, under another spelling of the title, and found it there
C3_Witness ==
    \E t \in Tasks :
        /\ tasks[t].pc = "commit"
        /\ tasks[t].existing # NoRow
        /\ tasks[t].existing.note_id > tasks[t].note_id
        /\ tasks[t].existing.title # tasks[t].title
        /\ \E r \in returned : r.note_id = tasks[t].existing.note_id /\ r.created
        /\ \E r \in returned : r.key # tasks[t].existing.title_normalized /\ r.created

-----------------------------------------------------------------------------
(* Reading a query string the way the search engine reads it: one pass,    *)
(* left to right. A double quote opens a phrase that runs to the next      *)
(* double quote; outside phrases, whitespace separates bare words.         *)

RECURSIVE ScanFrom(_, _, _)
ScanFrom(s, i, word) ==
    LET flush == IF word = <<>> THEN <<>> ELSE <<[kind |-> "word", value |-> word]>>
    IN  IF i > Len(s) THEN flush
        ELSE IF s[i] = QT /\ IndexFrom(s, QT, i + 1) # 0
             THEN LET j == IndexFrom(s, QT, i + 1)
                  IN  flush \o <<[kind |-> "phrase", value |-> SubSeq(s, i, j)]>>
                            \o ScanFrom(s, j + 1, <<>>)
        ELSE IF IsSpace(s[i]) THEN flush \o ScanFrom(s, i + 1, <<>>)
        ELSE ScanFrom(s, i + 1, Append(word, s[i]))

Scan(s) == ScanFrom(s, 1, <<>>)

\* the positions of s that lie outside every quoted span
RECURSIVE OutsideFrom(_, _, _)
OutsideFrom(s, i, inside) ==
    IF i > Len(s) THEN {}
    ELSE IF s[i] = QT THEN OutsideFrom(s, i + 1, ~inside)
    ELSE (IF inside THEN {} ELSE {i}) \cup OutsideFrom(s, i + 1, inside)

Outside(s) == OutsideFrom(s, 1, FALSE)

NoSpecialOutsideQuotes(s) == \A i \in Outside(s) : s[i] \notin FTS5_SPECIAL

BalancedQuotes(s) == Count(s, QT) % 2 = 0

Quoted(w) == <<QT>> \o w \o <<QT>>

\* s is a double-quoted span: a quote, no quote inside, a quote
IsQuotedSpan(s) ==
    /\ Len(s) >= 2
    /\ \A i \in 1..Len(s) : (s[i] = QT) <=> (i = 1 \/ i = Len(s))

AND == <<"A", "N", "D">>
OR  == <<"O", "R">>
NOT == <<"N", "O", "T">>

\* only whitespace and characters of the unsafe set
OnlyUnsafe(s) == \A i \in 1..Len(s) : IsSpace(s[i]) \/ s[i] \in FTS5_SPECIAL

\* the string the compiler sanitizes, and its tokens as the engine reads them
Sanitized   == sanitize_fts_query(StripTags(raw))
InTokens    == Scan(Sanitized)
OutTokens   == Scan(result)

-----------------------------------------------------------------------------
(* C4: for every raw input, build_fts_query returns the empty string or    *)
(* tokens joined by single spaces, each token a double-quoted span or one  *)
(* of AND / OR / NOT; the quotes of the output are balanced and no unsafe  *)
(* character stands outside a quoted span.                                 *)

OutputWellFormed(out) ==
    LET toks == Scan(out)
    IN  /\ \A k \in 1..Len(toks) :
               \/ toks[k].kind = "phrase" /\ IsQuotedSpan(toks[k].value)
               \/ toks[k].kind = "word" /\ toks[k].value \in {AND, OR, NOT}
        /\ out = Join([k \in 1..Len(toks) |-> toks[k].value])
        /\ BalancedQuotes(out)
        /\ NoSpecialOutsideQuotes(out)

C4_BuildOutputWellFormed == called = "build" => OutputWellFormed(result)

\* an input with an unbalanced quote and an unsafe character compiles to a term
C4_Witness ==
    /\ called = "build"
    /\ Count(raw, QT) % 2 = 1
    /\ \E i \in 1..Len(raw) : raw[i] \in FTS5_SPECIAL
    /\ result # <<>>

-----------------------------------------------------------------------------
(* C5: sanitize_fts_query is idempotent: sanitizing its own output returns *)
(* that output unchanged, for every input.                                 *)

C5_SanitizeIdempotent == called = "sanitize" => sanitize_fts_query(result) = result

-----------------------------------------------------------------------------
(* C6: the result of sanitize_fts_query has no unsafe character outside a  *)
(* quoted phrase, no leading, trailing or consecutive whitespace, and is   *)
(* empty exactly when the input holds nothing but whitespace, unsafe       *)
(* characters and, when its quotes are odd in number, quote characters.    *)

NoStrayWhitespace(s) ==
    /\ s # <<>> => ~IsSpace(s[1]) /\ ~IsSpace(s[Len(s)])
    /\ \A i \in 1..(Len(s) - 1) : ~(IsSpace(s[i]) /\ IsSpace(s[i + 1]))

NoContent(s) ==
    IF Count(s, QT) % 2 = 1
    THEN \A i \in 1..Len(s) : IsSpace(s[i]) \/ s[i] \in FTS5_SPECIAL \/ s[i] = QT
    ELSE OnlyUnsafe(s)

C6_SanitizeOutput ==
    called = "sanitize" =>
        /\ NoSpecialOutsideQuotes(result)
        /\ NoStrayWhitespace(result)
        /\ (result = <<>>) <=> NoContent(raw)

-----------------------------------------------------------------------------
(* C7: a raw string made up only of whitespace and unsafe characters,      *)
(* the empty string included, is sanitized and compiled to the empty       *)
(* string.                                                                 *)

C7_OnlyUnsafeIsEmpty ==
    (called \in {"sanitize", "build"} /\ OnlyUnsafe(raw)) => result = <<>>

C7_Witness ==
    /\ called = "build"
    /\ OnlyUnsafe(raw)
    /\ \E i \in 1..Len(raw) : raw[i] \in FTS5_SPECIAL
    /\ \E i \in 1..Len(raw) : IsSpace(raw[i])
    /\ result = <<>>

-----------------------------------------------------------------------------
(* C8, as claimed: every bare token whose UPPERCASE form is AND, OR or NOT *)
(* (so also "or") is emitted unchanged and unquoted, every other bare      *)
(* token is wrapped in double quotes.                                      *)

C8_OperatorsAnyCase ==
    called = "build" =>
        LET ins == InTokens  outs == OutTokens
        IN  /\ Len(outs) = Len(ins)
            /\ \A k \in 1..Len(ins) :
                   ins[k].kind = "word" =>
                       outs[k].value =
                           IF UpperStr(ins[k].value) \in {AND, OR, NOT}
                           THEN ins[k].value
                           ELSE Quoted(ins[k].value)

(* C8, amended: every bare token that is exactly AND, OR or NOT (in upper  *)
(* case) is emitted unchanged and unquoted; every other bare token, "or"   *)
(* and "Or" among them, is wrapped in double quotes.                       *)

C8_OperatorsExactCase ==
    called = "build" =>
        LET ins == InTokens  outs == OutTokens
        IN  /\ Len(outs) = Len(ins)
            /\ \A k \in 1..Len(ins) :
                   ins[k].kind = "word" =>
                       outs[k].value =
                           IF ins[k].value \in {AND, OR, NOT}
                           THEN ins[k].value
                           ELSE Quoted(ins[k].value)

\* a query with the operator OR and the bare word "or"
C8_Witness ==
    /\ called = "build"
    /\ \E i, j \in 1..Len(InTokens) :
           /\ InTokens[i] = [kind |-> "word", value |-> OR]
           /\ InTokens[j] = [kind |-> "word", value |-> <<"o", "r">>]
           /\ OutTokens[i] = [kind |-> "word", value |-> OR]
           /\ OutTokens[j] = [kind |-> "phrase", value |-> Quoted(<<"o", "r">>)]

-----------------------------------------------------------------------------
(* C9: build_fts_query emits one token per quoted phrase and bare word of  *)
(* the sanitized string, in the same left-to-right order: a quoted phrase  *)
(* verbatim, a bare word that is not an operator as "w"; nothing is        *)
(* dropped or duplicated.                                                  *)

C9_TokenOrderPreserved ==
    called = "build" =>
        LET ins == InTokens  outs == OutTokens
        IN  /\ Len(outs) = Len(ins)
            /\ \A k \in 1..Len(ins) :
                   /\ ins[k].kind = "phrase" => outs[k].value = ins[k].value
                   /\ (ins[k].kind = "word" /\ ins[k].value \notin {AND, OR, NOT})
                          => outs[k].value = Quoted(ins[k].value)

\* a bare word, then a quoted phrase, then another bare word
C9_Witness ==
    /\ called = "build"
    /\ Len(InTokens) = 3
    /\ InTokens[1].kind = "word"
    /\ InTokens[2].kind = "phrase"
    /\ InTokens[3].kind = "word"
    /\ InTokens[1].value # InTokens[3].value
    /\ Len(OutTokens) = 3

-----------------------------------------------------------------------------
(* C10: build_fts_query removes every tag:<token> word (in any case,       *)
(* token = a run of non-whitespace) before sanitizing: the query compiles  *)
(* to what it compiles to without those words, and neither "tag" nor the   *)
(* token shows up as a term.                                               *)

\* a whitespace-delimited word of s that starts at i and reads tag:<token>
TagWordAt(s, i) ==
    /\ i = 1 \/ IsSpace(s[i - 1])
    /\ i + Len(TagPrefix) <= Len(s)
    /\ \A k \in 1..Len(TagPrefix) : Lower(s[i + k - 1]) = TagPrefix[k]
    /\ ~IsSpace(s[i + Len(TagPrefix)])

\* s without its tag:<token> words
RECURSIVE WithoutTagWordsFrom(_, _)
WithoutTagWordsFrom(s, i) ==
    IF i > Len(s) THEN <<>>
    ELSE IF TagWordAt(s, i) THEN WithoutTagWordsFrom(s, RunEnd(s, i) + 1)
    ELSE <<s[i]>> \o WithoutTagWordsFrom(s, i + 1)

WithoutTagWords(s) == WithoutTagWordsFrom(s, 1)

\* whether "tag" occurs in s, in any case
HasTag(s) ==
    \E i \in 1..(Len(s) - 2) :
        Lower(s[i]) = "t" /\ Lower(s[i + 1]) = "a" /\ Lower(s[i + 2]) = "g"

C10_TagPrefixRemoved ==
    called = "build" =>
        LET rest == WithoutTagWords(raw)
        IN  /\ result = build_fts_query(rest)
            /\ ~HasTag(rest) => ~HasTag(result)
            /\ (\A i \in 1..Len(rest) : rest[i] # "b")
                   => \A i \in 1..Len(result) : result[i] # "b"

\* a word, then tag:b: only the word is compiled
C10_Witness ==
    /\ called = "build"
    /\ raw = <<"a", SP, "T", "a", "g", ":", "b">>
    /\ result = Quoted(<<"a">>)

-----------------------------------------------------------------------------
(* C11: when the expression a caller (recall, CLI search,                  *)
(* SQLiteNoteStore.search) compiled from its query is empty, the caller    *)
(* answers with an empty / "no results" outcome and has invoked no match   *)
(* search of the storage layer.                                            *)

C11_EmptyExpressionShortCircuits ==
    (reply.compiled /\ build_fts_query(raw) = <<>>) =>
        /\ reply.message \in {"no_results", "no_terms"}
        /\ reply.notes = <<>>
        /\ reply.sessions = <<>>
        /\ matched = {}

\* recall answered a query of unsafe characters and a tag prefix
C11_Witness ==
    /\ reply.caller = "recall"
    /\ reply.compiled
    /\ \E i \in 1..Len(raw) : raw[i] \in FTS5_SPECIAL
    /\ \E i \in 1..Len(raw) : raw[i] = "t"
    /\ result = <<>>
    /\ reply.message = "no_results"
    /\ matched = {}

-----------------------------------------------------------------------------
(* C12: search is fail-soft: when the engine rejects the match expression, *)
(* search_notes and search_sessions return an empty list, no exception     *)
(* reaches the caller, and no search call, failed or not, changes the      *)
(* notes or the sessions of the store.                                     *)

IsSearch(call) == call.name \in {"search_notes", "search_sessions"}

C12_FailSoft ==
    /\ IsSearch(last) => last.ret.kind = "results"
    /\ (IsSearch(last) /\ last.fts_expr = Malformed) => last.ret.results = <<>>

C12_StoreUnchanged ==
    [][(IsSearch(last') /\ last' # last) => (notes' = notes /\ sessions' = sessions)]_vars

C12_SearchFailSoft == []C12_FailSoft /\ C12_StoreUnchanged

\* a search of sessions was rejected by the engine while notes and sessions
\* that other expressions match are stored
C12_Witness ==
    /\ last.name = "search_sessions"
    /\ last.fts_expr = Malformed
    /\ last.ret = [kind |-> "results", results |-> <<>>]
    /\ notes # {}
    /\ Cardinality(sessions) = 2

-----------------------------------------------------------------------------
(* C13: the list search_notes returns is ordered by descending final       *)
(* score, final score = |raw engine score| x relevance; when more than     *)
(* limit notes match, the list holds limit notes and no note left out has  *)
(* a higher final score than a note in the list. This holds for every      *)
(* score the engine gives and every relevance in (0, 1].                   *)

\* |raw engine score| x relevance
FinalScore(row, scores) ==
    (IF scores[row.note_id] < 0 THEN 0 - scores[row.note_id] ELSE scores[row.note_id])
        * row.relevance

C13_OrderedByFinalScore ==
    (last.name = "search_notes" /\ last.fts_expr # Malformed) =>
        LET res     == last.ret.results
            rows    == Candidates(notes, last.fts_expr)
            listed  == {res[i].note : i \in 1..Len(res)}
        IN  /\ \A i \in 1..Len(res) :
                   /\ res[i].note \in rows
                   /\ res[i].score = FinalScore(res[i].note, last.scores)
            /\ \A i \in 1..(Len(res) - 1) : res[i].score >= res[i + 1].score
            /\ Cardinality(listed) = Len(res)
            /\ Len(res) = IF Cardinality(rows) < last.limit
                          THEN Cardinality(rows) ELSE last.limit
            /\ \A r \in rows \ listed :
                   \A i \in 1..Len(res) : FinalScore(r, last.scores) <= res[i].score

\* two notes match, the one with the weaker engine score and the higher
\* relevance wins, and the limit leaves the other out
C13_Witness ==
    /\ last.name = "search_notes"
    /\ last.limit = 1
    /\ Len(last.ret.results) = 1
    /\ \E r \in Candidates(notes, last.fts_expr) :
           /\ r # last.ret.results[1].note
           /\ Abs(last.scores[r.note_id]) > Abs(last.scores[last.ret.results[1].note.note_id])
           /\ r.relevance < last.ret.results[1].note.relevance
           /\ FinalScore(r, last.scores) < last.ret.results[1].score

-----------------------------------------------------------------------------
(* C14: deduplicate_results returns exactly one entry per note_id of its   *)
(* input; the entry is the first entry of the input that has the highest   *)
(* score seen for that id; the output is sorted by score descending.       *)

\* the first entry of the list with this id and the highest score of the id
FirstBest(list, id) ==
    LET same == {j \in 1..Len(list) : list[j].note_id = id}
        best == {j \in same : \A k \in same : list[k].score <= list[j].score}
    IN  list[CHOOSE j \in best : \A k \in best : j <= k]

C14_DeduplicateKeepsBest ==
    deduped.done =>
        LET out == deduped.list
        IN  /\ {out[i].note_id : i \in 1..Len(out)} = {hits[j].note_id : j \in 1..Len(hits)}
            /\ \A i, j \in 1..Len(out) : out[i].note_id = out[j].note_id => i = j
            /\ \A i \in 1..Len(out) : out[i] = FirstBest(hits, out[i].note_id)
            /\ \A i \in 1..(Len(out) - 1) : out[i].score >= out[i + 1].score

\* an id seen twice with its highest score, under two snippets, after a lower
\* entry of another id that comes last in the output
C14_Witness ==
    /\ deduped.done
    /\ Len(hits) = 4
    /\ Len(deduped.list) = 2
    /\ hits[1].score < hits[2].score
    /\ hits[2].note_id # hits[1].note_id
    /\ hits[3] = [hits[2] EXCEPT !.snippet = "t"]
    /\ hits[2].snippet = "s"
    /\ deduped.list[1] = hits[2]

-----------------------------------------------------------------------------
(* What a snippet is about: the occurrences of the query terms in the      *)
(* content, read without regard to case, and the text between the markers. *)

\* the term t, its quotes stripped, occurs in text at offset p (from 0)
TermOccursAt(text, t, p) ==
    LET st == StripQuotes(t)
    IN  /\ st # <<>>
        /\ p + Len(st) <= Len(text)
        /\ \A k \in 1..Len(st) : SimpleLower(text[p + k]) = SimpleLower(st[k])

MatchOffsets(text, query_terms) ==
    {p \in 0..(Len(text) - 1) :
        \E i \in 1..Len(query_terms) : TermOccursAt(text, query_terms[i], p)}

SomeTermOccurs(text, query_terms) == MatchOffsets(text, query_terms) # {}

EarliestMatch(text, query_terms) ==
    CHOOSE p \in MatchOffsets(text, query_terms) :
        \A q \in MatchOffsets(text, query_terms) : p <= q

\* the snippet without its highlight markers
RECURSIVE Unmarked(_)
Unmarked(text) ==
    IF text = <<>> THEN <<>>
    ELSE (IF text[1] \in {">", "<"} THEN <<>> ELSE <<text[1]>>) \o Unmarked(Tail(text))

\* the markers of the text come in pairs, an open marker then a close marker,
\* and no pair stands inside another
RECURSIVE PairedFrom(_, _, _)
PairedFrom(text, i, open) ==
    IF i > Len(text) THEN ~open
    ELSE IF OccursAt(text, HIGHLIGHT_OPEN, i)
         THEN ~open /\ PairedFrom(text, i + Len(HIGHLIGHT_OPEN), TRUE)
    ELSE IF OccursAt(text, HIGHLIGHT_CLOSE, i)
         THEN open /\ PairedFrom(text, i + Len(HIGHLIGHT_CLOSE), FALSE)
    ELSE PairedFrom(text, i + 1, open)

\* the text holds an occurrence of the term between an open and a close marker
HoldsHighlighted(text, t) ==
    LET st == StripQuotes(t)
    IN  /\ st # <<>>
        /\ \E i \in 1..Len(text) :
               /\ OccursAt(text, HIGHLIGHT_OPEN, i)
               /\ TermOccursAt(text, t, i + Len(HIGHLIGHT_OPEN) - 1)
               /\ OccursAt(text, HIGHLIGHT_CLOSE, i + Len(HIGHLIGHT_OPEN) + Len(st))

-----------------------------------------------------------------------------
(* C15: when a query term occurs in the content, the window of the snippet *)
(* is a contiguous piece of the content of exactly min(max_length,         *)
(* len(content)) characters that holds the offset of the earliest match    *)
(* and ends within the content; "..." comes before it iff it does not      *)
(* start at offset 0 and after it iff it does not reach the end.           *)

C15_SnippetWindow ==
    (snip.done /\ SomeTermOccurs(body, wanted)) =>
        LET size  == Min(snip.max_length, Len(body))
            first == EarliestMatch(body, wanted)
            plain == Unmarked(snip.text)
        IN  \E start \in 0..(Len(body) - size) :
                /\ start <= first
                /\ first < start + size
                /\ plain = (IF start > 0 THEN ELLIPSIS ELSE <<>>)
                               \o Slice(body, start, start + size)
                               \o (IF start + size < Len(body) THEN ELLIPSIS ELSE <<>>)

-----------------------------------------------------------------------------
(* C16: when a query term occurs in the content, the snippet holds a match *)
(* of a term between the highlight markers, for every content, term list   *)
(* and max_length >= 1, and every occurrence in the window is wrapped by   *)
(* exactly one pair of markers: the markers pair up and do not nest.       *)

C16_MatchHighlightedOnce ==
    (snip.done /\ SomeTermOccurs(body, wanted)) =>
        /\ \E i \in 1..Len(wanted) : HoldsHighlighted(snip.text, wanted[i])
        /\ PairedFrom(snip.text, 1, FALSE)

-----------------------------------------------------------------------------
(* C17: for every note, store state and limit >= 1, find_related(note,     *)
(* store, limit) returns without raising a list of at most limit results,  *)
(* none of which has the note's own note_id.                               *)

C17_FindRelatedReturns ==
    answer.op = "find_related" =>
        /\ answer.kind = "results"
        /\ Len(answer.results) <= answer.limit
        /\ \A k \in 1..Len(answer.results) : answer.results[k] # answer.note.note_id

-----------------------------------------------------------------------------
(* C18: for every store state, find_stale_notes(store, days) returns       *)
(* exactly the active notes whose updated_at is earlier than now - days,   *)
(* however many notes the store holds: with days = -1 every active note,   *)
(* and never an archived note.                                             *)

StaleIds == {answer.stale[k].note_id : k \in 1..Len(answer.stale)}

C18_StaleIsExact ==
    answer.op = "find_stale_notes" =>
        StaleIds = {r.note_id : r \in {n \in knotes :
                        n.status = ACTIVE /\ n.updated_at < clock - answer.days}}

-----------------------------------------------------------------------------
(* C19: for every store state, build_daily_digest reports total_notes      *)
(* equal to the number of notes in the store, category_distribution        *)
(* counting every note with a non-empty category, and stale_count equal to *)
(* the number of active notes not updated in 30 days: the aggregation      *)
(* covers all notes, not a page of them.                                   *)

C19_DigestCoversAll ==
    answer.op = "build_daily_digest" =>
        LET d == answer.digest
            cats == {n.category : n \in knotes} \ {""}
        IN  /\ d.total_notes = Cardinality(knotes)
            /\ DOMAIN d.category_distribution = cats
            /\ \A c \in cats :
                   d.category_distribution[c] = Cardinality({n \in knotes : n.category = c})
            /\ d.stale_count =
                   Cardinality({n \in knotes :
                       n.status = ACTIVE /\ n.updated_at < clock - StaleDays})

-----------------------------------------------------------------------------
(* C20: get_session with a short prefix that matches more than one stored  *)
(* session raises ValueError, an error that carries the full session ids   *)
(* of all the sessions that match, and never silently returns one of them. *)

\* the stored session ids that start with the prefix
StartingWith(prefix) ==
    {r.session_id : r \in {x \in sessions :
        /\ Len(prefix) <= Len(x.session_id)
        /\ SubSeq(x.session_id, 1, Len(prefix)) = prefix}}

\* the last call was get_session with a short prefix that several sessions start with
AmbiguousLookup ==
    /\ lookup.op = "get_session"
    /\ Len(lookup.prefix) < IdLen
    /\ Cardinality(StartingWith(lookup.prefix)) > 1

C20_AmbiguousCarriesFullIds ==
    AmbiguousLookup =>
        /\ lookup.ret.kind = "ValueError"
        /\ {lookup.ret.candidates[k] : k \in 1..Len(lookup.ret.candidates)}
               = StartingWith(lookup.prefix)

-----------------------------------------------------------------------------
(* C21: not-found is an absence, never an exception: get_note,             *)
(* get_note_by_title and set_relevance for an id or title no note has, and *)
(* get_session for an id or prefix that matches no session, return None,   *)
(* and the notes and the sessions of the store are left as they were.      *)

\* the last call on the notes table asked for a note the table did not hold
AbsentNoteCall ==
    \/ /\ last.name = "get_note"
       /\ \A r \in prev : r.note_id # last.note_id
    \/ /\ last.name \in {"get_note_by_title", "set_relevance"}
       /\ \A r \in prev : r.title_normalized # normalize_title(last.title)

\* the last get_session asked for an id or prefix that selects no row
AbsentSessionCall ==
    /\ lookup.op = "get_session"
    /\ IF Len(lookup.prefix) < IdLen
       THEN \A r \in sessions : ~Like(r.session_id, lookup.prefix \o <<"%">>)
       ELSE \A r \in sessions : r.session_id # lookup.prefix

C21_ReturnsNone ==
    /\ AbsentNoteCall => last.ret = [kind |-> "none"] /\ notes = prev
    /\ AbsentSessionCall => lookup.ret.kind = "none" /\ lookup.ret.session = Nil

C21_StoreUnchanged ==
    [][((last' # last /\ AbsentNoteCall') \/ (lookup' # lookup /\ AbsentSessionCall'))
           => (notes' = notes /\ sessions' = sessions)]_vars

-----------------------------------------------------------------------------
(* C22: in every state reached by upsert_note and set_relevance calls,     *)
(* whatever relevance argument is passed (below 0 and above 1 included),   *)
(* the relevance of every stored note lies in [0.0, 1.0]; set_relevance    *)
(* stores and returns the argument clamped to that interval, and           *)
(* upsert_note always stores 1.0.                                          *)

\* the row the last call wrote or read, in the table as it is now
RowOfLast == RowByKey(notes, normalize_title(last.title))

\* the argument brought into [0.0, 1.0]
Clamped(x) == IF x < 0 THEN 0 ELSE IF x > FullRelevance THEN FullRelevance ELSE x

C22_RelevanceInRange ==
    /\ \A r \in notes : r.relevance >= 0 /\ r.relevance <= FullRelevance
    /\ (last.name = "set_relevance" /\ last.ret.kind = "note") =>
           /\ last.ret.note.relevance = Clamped(last.relevance)
           /\ RowOfLast.relevance = Clamped(last.relevance)
    /\ last.name = "upsert_note" =>
           /\ last.ret.note.relevance = FullRelevance
           /\ RowOfLast.relevance = FullRelevance

\* set_relevance was called with an argument above 1.0 on a note that had
\* been forgotten
C22_Witness ==
    /\ last.name = "set_relevance"
    /\ last.relevance > FullRelevance
    /\ last.ret.kind = "note"
    /\ RowByKey(prev, normalize_title(last.title)).relevance = 0
    /\ RowOfLast.relevance = FullRelevance

-----------------------------------------------------------------------------
(* C23: upsert_note with a title whose normalized form equals that of an   *)
(* existing note updates that note in place: it returns created = False,   *)
(* keeps the note_id and the created_at of the note, replaces its title,   *)
(* content, tags and category, and leaves the number of notes and every    *)
(* other note unchanged.                                                   *)

\* the row the last call found under its normalized title before it wrote
RowBeforeLast == RowByKey(prev, normalize_title(last.title))

C23_UpsertUpdatesInPlace ==
    (last.name = "upsert_note" /\ RowBeforeLast # NoRow) =>
        /\ last.ret.created = FALSE
        /\ last.ret.note.note_id = RowBeforeLast.note_id
        /\ last.ret.note.created_at = RowBeforeLast.created_at
        /\ RowOfLast.note_id = RowBeforeLast.note_id
        /\ RowOfLast.created_at = RowBeforeLast.created_at
        /\ RowOfLast.title = last.title
        /\ RowOfLast.content = last.content
        /\ RowOfLast.tags = last.tags
        /\ RowOfLast.category = last.category
        /\ Cardinality(notes) = Cardinality(prev)
        /\ notes \ {RowOfLast} = prev \ {RowBeforeLast}

\* a note written under one title at one time was written again, later,
\* under another title with the same normalized form, with other content,
\* tags and category, while another note is stored
C23_Witness ==
    /\ last.name = "upsert_note"
    /\ RowBeforeLast # NoRow
    /\ RowBeforeLast.title # last.title
    /\ RowBeforeLast.content # last.content
    /\ RowBeforeLast.tags # last.tags
    /\ RowBeforeLast.category # last.category
    /\ RowBeforeLast.created_at # last.now
    /\ Cardinality(prev) = 2

-----------------------------------------------------------------------------
(* C29: set_relevance(title, r) on an existing note changes only the       *)
(* relevance and the updated_at of that note: its note_id, title, content, *)
(* tags, category and created_at, every field of every other note and the *)
(* number of notes are unchanged; and the active and forgotten counts of   *)
(* count_notes always add up to the number of notes.                       *)

C29_SetRelevanceFrame ==
    /\ (last.name = "set_relevance" /\ RowBeforeLast # NoRow) =>
           /\ RowOfLast = [RowBeforeLast EXCEPT !.relevance = RowOfLast.relevance,
                                                !.updated_at = RowOfLast.updated_at]
           /\ notes \ {RowOfLast} = prev \ {RowBeforeLast}
           /\ Cardinality(notes) = Cardinality(prev)
    /\ last.name = "count_notes" =>
           last.ret.active + last.ret.forgotten = Cardinality(notes)
    /\ Cardinality({r \in notes : r.relevance > 0})
           + Cardinality({r \in notes : r.relevance = 0}) = Cardinality(notes)

\* a note with tags and a category was forgotten at a later time than it was
\* written, while another note is stored
C29_Witness ==
    /\ last.name = "set_relevance"
    /\ RowBeforeLast # NoRow
    /\ RowBeforeLast.tags # NoTags
    /\ RowBeforeLast.relevance # RowOfLast.relevance
    /\ RowBeforeLast.updated_at # RowOfLast.updated_at
    /\ RowOfLast.relevance = 0
    /\ Cardinality(notes) = 2

-----------------------------------------------------------------------------
(* C24: after any sequence of upsert_session calls the store holds exactly *)
(* one session row per distinct session_id, carrying the values of the    *)
(* most recent upsert for that id; upserting an existing session_id again *)
(* does not change count_sessions.                                        *)

\* the rows of the table with this session_id
RowsOf(table, id) == {r \in table : r.session_id = id}

C24_OneRowPerSession ==
    /\ \A r \in sessions : RowsOf(sessions, r.session_id) = {r}
    /\ last.name = "upsert_session" =>
           /\ RowsOf(sessions, last.title) = {SessionRow(last.title, last.content)}
           /\ \A r \in prevs : r.session_id # last.title => r \in sessions
           /\ \A r \in sessions : r.session_id # last.title => r \in prevs
           /\ RowsOf(prevs, last.title) # {} => Cardinality(sessions) = Cardinality(prevs)

\* a session stored with one text was upserted again with another, while
\* other sessions are stored
C24_Witness ==
    /\ last.name = "upsert_session"
    /\ RowsOf(prevs, last.title) # {}
    /\ RowsOf(prevs, last.title) # RowsOf(sessions, last.title)
    /\ Cardinality(sessions) = 3

-----------------------------------------------------------------------------
(* C26: get_session(id), called with a string exactly equal to the         *)
(* session_id of a stored session, returns that session, for every set of  *)
(* stored sessions, also when the id is shorter than a UUID and is the     *)
(* beginning of the id of another stored session.                          *)

C26_ExactIdFound ==
    lookup.op = "get_session" =>
        \A r \in sessions : r.session_id = lookup.prefix => lookup.ret = Found(r)

-----------------------------------------------------------------------------
(* C25: indexing is incremental: once index_sessions has indexed a session *)
(* file, a later run over files whose mtime and size are unchanged indexes *)
(* 0 sessions and leaves the store unchanged; and a file that holds a      *)
(* session is indexed again exactly when it has no stored row or its       *)
(* stored source_mtime or source_size differs from the current values of   *)
(* the file.                                                               *)

\* the run found the file as it had stored it: a row with its mtime and size
StoredAsIs(f) ==
    \E r \in run.before :
        /\ r.session_id = f
        /\ r.source_mtime = files[f].mtime
        /\ r.source_size = files[f].size

\* the ids the run scanned and the ids it indexed
Scanned   == {run.scanned[k] : k \in 1..Len(run.scanned)}
Reindexed == {run.reindexed[k] : k \in 1..Len(run.reindexed)}

C25_IncrementalIndexing ==
    run.op = "index_sessions" =>
        /\ run.indexed = Cardinality(Reindexed)
        /\ (\A f \in Scanned : StoredAsIs(f)) => (run.indexed = 0 /\ sessions = run.before)
        /\ \A f \in Scanned :
               f \in Reindexed <=>
                   (parse_jsonl(f, files[f]) # NoSession /\ ~StoredAsIs(f))
        /\ \A f \in Reindexed : parse_jsonl(f, files[f]) \in sessions

\* C25 as stated: every file scanned, whether or not it holds a session, is
\* indexed exactly when it has no stored row or its stored mtime or size
\* differs
C25_ReindexedExactlyWhenStale ==
    run.op = "index_sessions" =>
        \A f \in Scanned : f \in Reindexed <=> ~StoredAsIs(f)

\* a run over two indexed files, one of them written to since, indexed that
\* one and skipped the other
C25_Witness ==
    /\ run.op = "index_sessions"
    /\ Cardinality(Scanned) = 2
    /\ Cardinality(run.before) = 2
    /\ run.indexed = 1
    /\ \E f \in Scanned : StoredAsIs(f) /\ f \notin Reindexed

-----------------------------------------------------------------------------
(* C27: under any interleaving of concurrent first tool calls, _get_store *)
(* never hands a caller a SQLiteStore whose initialize() has not          *)
(* completed: every tool call that receives the singleton can use its     *)
(* connection without hitting "Store not initialised", and exactly one    *)
(* store instance is ever created.                                        *)

\* exactly one store is created, and _store stays that one
C27_OneInstance ==
    /\ Len(server.stores) <= 1
    /\ \A c \in Callers : server.calls[c].got \in {NoStore, 1}

C27_StoreInitialised ==
    /\ \A c \in Callers :
           /\ server.calls[c].pc = "has_store" =>
                  server.stores[server.calls[c].got] = InitSteps
           /\ server.calls[c].outcome \in {"none", "ok"}
    /\ C27_OneInstance

-----------------------------------------------------------------------------
(* C28: upsert_session is atomic for concurrent readers of the same store: *)
(* a get_session, count_sessions, needs_reindex or search_sessions call    *)
(* interleaved with an in-progress upsert_session of an already stored     *)
(* session never observes that session as absent.                          *)

\* an upsert_session of a session that was stored is in progress
Replacing == writer.pc # "idle" /\ writer.old # NoSession

C28_UpsertAtomic ==
    Replacing =>
        /\ (lookup.op = "get_session" /\ lookup.prefix = writer.row.session_id) =>
               lookup.ret.kind = "session"
        /\ lookup.op = "count_sessions" => lookup.ret.value = writer.count
        /\ (lookup.op = "needs_reindex" /\ lookup.prefix = writer.row.session_id) =>
               lookup.ret.value = FALSE
        /\ (last.name = "search_sessions" /\ last.fts_expr = writer.old.text
               /\ last.fts_expr = writer.row.text) =>
               \E k \in 1..Len(last.ret.results) :
                   last.ret.results[k].session.session_id = writer.row.session_id

-----------------------------------------------------------------------------
(* C30: the two query compilers agree: for every raw input with an even    *)
(* number of double quotes, krang.search.build_fts_query and               *)
(* kraang.search.build_fts_query return the same string. Corrected: they   *)
(* agree on every raw input that is left with an even number of double     *)
(* quotes once its tag:<token> prefixes are removed.                       *)

\* the number of double quotes is even
EvenQuotes(s) == Count(s, QT) % 2 = 0

\* what kraang.search.build_fts_query returns on the query compiled by krang
KraangOnRaw == build_fts_query(raw)

C30_AgreeOnEvenRaw ==
    (called = "krang_build" /\ EvenQuotes(raw)) => result = KraangOnRaw

C30_AgreeOnEvenStripped ==
    (called = "krang_build" /\ EvenQuotes(StripTags(raw))) => result = KraangOnRaw

\* krang compiled a query with a quoted phrase, a special character and a
\* bare word, and both packages give the same expression, which is not empty
C30_Witness ==
    /\ called = "krang_build"
    /\ Count(raw, QT) = 2
    /\ Count(raw, "*") = 1
    /\ EvenQuotes(StripTags(raw))
    /\ result = KraangOnRaw
    /\ Len(result) > 3
    /\ result # raw

====
